---- MODULE Spec2Model ----
(***************************************************************************)
(* Model of the ABA behaviour tracker (ai4he/autism).                      *)
(*                                                                         *)
(* The application is a set of browser pages over one IndexedDB database.  *)
(* The module models, from the sources:                                    *)
(*   - lib/db.ts               the Database wrapper and its object stores  *)
(*   - pages/reinforcers.tsx   the reinforcers page (submit, use, delete)  *)
(*   - lib/profiles.ts         exportAllData / importAllData               *)
(*   - pages/behaviors/new.tsx the new-behaviour form                      *)
(*   - pages/analytics.tsx     the behaviours list (delete, PDF save)      *)
(*   - components/PDFImport    the PDF import wizard                       *)
(*   - lib/multimodal-conversation.ts and its component                    *)
(*   - lib/gemini.ts           the Gemini client and the pages' API key    *)
(*                                                                         *)
(* Time is a counter of ticks; TicksPerDay ticks make one day.  A record id *)
(* `prefix-${Date.now()}-${random}` is the pair <<tick, random>>, with      *)
(* random = 0 for the ids that carry no random suffix.                     *)
(***************************************************************************)
EXTENDS Integers, Sequences, FiniteSets, TLC

\* ---------------------------------------------------------------- bounds
MaxTime == 2          \* the clock stops ticking here
TicksPerDay == 2      \* clock resolution: ticks per calendar day
MaxClicks == 3        \* clicks that start a handler in one run
MaxInFlight == 2      \* page handlers awaiting the database at one time
MaxAvoidDays == 1     \* largest avoidRepetitionDays typed into the form
MaxRandom == 1        \* distinct random suffixes of a record id
MaxStreams == 2       \* getUserMedia calls that are granted in one run
MaxChunks == 2        \* timer chunks a MediaRecorder emits into one buffer
MaxFiles == 2         \* PDF files selected in the import wizard at one time
MaxRuns == 2          \* runs of handleProcessFiles in one run of the wizard
MaxEntries == 7       \* entries the analytics page has loaded
MaxExchanges == 3     \* messages the user sends to the chat assistant
MaxBehaviors == 4     \* behaviors handed to calculateBehaviorAnalytics
MaxLoads == 2         \* invocations of loadActiveProfile in one run

VARIABLES
    now,              \* Date.now(), in ticks
    db,               \* the IndexedDB database: object store name -> (id -> record)
    reinforcers,      \* reinforcers.tsx: React state `reinforcers` (rendered list)
    inflight,         \* reinforcers.tsx: handlers awaiting db.update / loadReinforcers
    useDone,          \* per reinforcer id: number of handleUse calls that completed
    clicks,           \* user actions (clicks that start a handler) taken so far
    importPc,         \* handleImportData: "idle", "running", "done" or "failed"
    importQueue,      \* importAllData: the records still to be written, in order
    exportPc,         \* handleExportData: "idle", "done" or "failed"
    download,         \* the backup document handed to the user by the last export
    importDoc,        \* handleImportData: the parsed document being imported
    alertShown,       \* the message of the last alert() the application showed
    formData,         \* behaviors/new.tsx: React state `formData` (severity, text)
    savePc,           \* handleBehaviorsExtracted: "idle", "running", "done", "failed"
    saveQueue,        \* handleBehaviorsExtracted: extracted behaviors still to add
    mounted,          \* MultimodalConversation.tsx: the effect has built a conversation
    enableVideo,      \* config.enableVideo of the conversation
    startPc,          \* startConversation: "idle", "getUserMedia", "sendInitialPrompt"
    tracks,           \* every MediaStreamTrack getUserMedia returned: "live" or "ended"
    audioStream,      \* this.audioStream: its set of tracks ({} for null)
    videoStream,      \* this.videoStream: its set of tracks ({} for null)
    audioRecorder,    \* this.audioRecorder: "null", or the MediaRecorder's state
    videoRecorder,    \* this.videoRecorder: "null", or the MediaRecorder's state
    isRecording,      \* this.isRecording
    audioChunks,      \* this.audioChunks.length
    videoChunks,      \* this.videoChunks.length
    pendingStop,      \* recorders whose last dataavailable and stop events are queued
    uploading,        \* chunks of the audio blob handed to sendAudioToGemini
    lastUpload,       \* outcome of the last sendAudioToGemini: "none", "sent", "failed"
    uiIsRecording,    \* MultimodalConversation.tsx: React state isRecording
    uiIsPaused,       \* MultimodalConversation.tsx: React state isPaused
    invalidState,     \* pause() or resume() was called on an inactive MediaRecorder
    geminiApiKey,     \* behaviors/new.tsx: React state geminiApiKey
    genAI,            \* lib/gemini.ts: the module's client, holding its key
    localStorage,     \* window.localStorage: item name -> value
    keyTouched,       \* the key input has changed since the page was loaded
    keysTyped,        \* every key typed into the key input so far
    files,            \* PDFImport: React state files (how many are selected)
    processing,       \* PDFImport: React state processing
    extractedBehaviors, \* PDFImport: React state extractedBehaviors
    currentStep,      \* PDFImport: React state currentStep
    error,            \* PDFImport: React state error
    processFiles,     \* handleProcessFiles: the files its closure iterates over
    processIndex,     \* handleProcessFiles: files of the loop done so far
    allBehaviors,     \* handleProcessFiles: its local allBehaviors
    processRun,       \* runs of handleProcessFiles started so far
    failedRuns,       \* the runs in which the extraction of a file failed
    wizardEvent,      \* PDFImport: the handler that ran last, and how it ended
    importedBehaviors, \* what handleImport passed to onBehaviorsExtracted
    profiles,         \* ProfileManager: React state profiles (the listed ones)
    activeProfileId,  \* ProfileManager: React state activeProfileId
    activeProfile,    \* ProfileSwitcher: React state activeProfile (its id)
    pendingLoads,     \* ProfileManager: loadProfiles calls awaiting getAllProfiles
    lastOp,           \* the profile operation that ended last, and how it ended
    pageBehaviors,    \* analytics.tsx: React state behaviors, (date, severity) -> entries
    milestones,       \* calculateBehaviorAnalytics(behaviors).milestones of the last render
    chatHistory,      \* ContextualChat: this.chatHistory
    chatMessages,     \* ContextualChat.tsx: React state messages
    isLoading,        \* ContextualChat.tsx: React state isLoading
    chatError,        \* ContextualChat.tsx: React state error is set
    sendPc,           \* sendMessage: the exchange awaiting its reply, 0 for none
    exchanges,        \* sendMessage calls made so far
    clearedUpTo,      \* the exchanges begun before the last clearHistory()
    configBehaviors,  \* ContextualChat: this.config.behaviors (each entry's function)
    analytics,        \* ContextualChat: this.analytics
    showVoiceModal,   \* behaviors/new.tsx: React state showVoiceModal
    showVideoModal,   \* behaviors/new.tsx: React state showVideoModal
    continuePressed,  \* Continue has been pressed in the key prompt
    conversationKey,  \* the apiKey of the conversation the page renders, if any
    loads,            \* loadActiveProfile: each invocation's position and new id
    parentsCreated    \* `Parent` profiles initializeDefaultProfile has stored

reinfVars == <<reinforcers, inflight, useDone>>

backupVars == <<importPc, importQueue, importDoc, exportPc, download, alertShown>>

behaviorVars == <<formData, savePc, saveQueue>>

classVars == <<tracks, audioStream, videoStream, audioRecorder, videoRecorder,
               isRecording, pendingStop>>

mediaVars == <<mounted, enableVideo, startPc, classVars, audioChunks, videoChunks,
               uploading, lastUpload, uiIsRecording, uiIsPaused, invalidState>>

keyVars == <<geminiApiKey, genAI, localStorage, keyTouched, keysTyped>>

wizardVars == <<files, processing, extractedBehaviors, currentStep, error,
                processFiles, processIndex, allBehaviors, processRun, failedRuns,
                wizardEvent, importedBehaviors>>

profileVars == <<profiles, activeProfileId, activeProfile, pendingLoads, lastOp>>

analyticsVars == <<pageBehaviors, milestones>>

defaultVars == <<loads, parentsCreated>>

promptVars == <<showVoiceModal, showVideoModal, continuePressed, conversationKey>>

chatVars == <<chatHistory, chatMessages, isLoading, chatError, sendPc, exchanges,
              clearedUpTo, configBehaviors, analytics>>

vars == <<now, clicks, db, reinfVars, backupVars, behaviorVars, mediaVars, keyVars,
          wizardVars, profileVars, analyticsVars, chatVars, promptVars, defaultVars>>

\* What the handlers of the reinforcers page leave alone.
notReinforcers == <<backupVars, behaviorVars, mediaVars, keyVars, wizardVars,
                    profileVars, analyticsVars, chatVars, promptVars, defaultVars>>

\* What the backup handlers of ProfileManager leave alone.
notBackup == <<reinfVars, behaviorVars, mediaVars, keyVars, wizardVars, profileVars, analyticsVars, chatVars, promptVars, defaultVars>>

\* What the handlers of the behaviour pages leave alone.
notBehaviors == <<reinfVars, importPc, importQueue, importDoc, exportPc, download,
                  mediaVars, keyVars, wizardVars, profileVars, analyticsVars, chatVars, promptVars, defaultVars>>

\* An optional value: None (undefined / null) or Some(x).
None == <<>>
Some(x) == <<x>>

\* ------------------------------------------------------------ lib/db.ts
\* STORES (db.ts:7-11).  STORES.PROFILES is read by lib/profiles.ts but is not
\* a member of STORES: the expression evaluates to undefined, which IndexedDB
\* converts to the store name "undefined".
STORES == [BEHAVIORS |-> "behaviors", REINFORCERS |-> "reinforcers",
           CRISIS_PROTOCOLS |-> "crisisProtocols"]

STORES_PROFILES == "undefined"

\* Mutant of objectStoreNames: onupgradeneeded also creates the store that
\* lib/profiles.ts opens.
objectStoreNamesWithProfiles ==
    {STORES.BEHAVIORS, STORES.REINFORCERS, STORES.CRISIS_PROTOCOLS, STORES_PROFILES}

\* The object stores Database.init creates in onupgradeneeded (db.ts:28-57).
objectStoreNames == {STORES.BEHAVIORS, STORES.REINFORCERS, STORES.CRISIS_PROTOCOLS}

\* db.transaction(storeName, ...) throws NotFoundError for an unknown store; the
\* promise of every Database method then rejects.
TransactionOk(storeName) == storeName \in objectStoreNames

\* store.put(item): insert or overwrite by key (Database.update, db.ts:73-83).
Database_update(store, id, item) ==
    [k \in DOMAIN store \cup {id} |-> IF k = id THEN item ELSE store[k]]

\* Mutant of Database_add: put in the place of add.
Database_addAsPut(store, id, item) == Database_update(store, id, item)

\* store.add(item) succeeds only for a new key (Database.add, db.ts:61-71);
\* with an existing key the request fails with ConstraintError.
AddSucceeds(store, id) == id \notin DOMAIN store

Database_add(store, id, item) ==
    IF AddSucceeds(store, id) THEN Database_update(store, id, item) ELSE store

\* store.delete(id) (Database.delete, db.ts:109-119).
Database_delete(store, id) == [k \in DOMAIN store \ {id} |-> store[k]]

\* Key order of an object store.
KeyLess(a, b) == a[1] < b[1] \/ (a[1] = b[1] /\ a[2] < b[2])

\* store.getAll() (Database.getAll, db.ts:97-107): the records in key order.
RECURSIVE Database_getAll(_)
Database_getAll(store) ==
    IF DOMAIN store = {} THEN <<>>
    ELSE LET k == CHOOSE x \in DOMAIN store :
                      \A y \in DOMAIN store : y = x \/ KeyLess(x, y)
         IN <<[id |-> k, item |-> store[k]]>>
                \o Database_getAll([j \in DOMAIN store \ {k} |-> store[j]])

\* `prefix-${Date.now()}`: an id without random suffix.
TimeId(t) == <<t, 0>>

\* ------------------------------------------------- pages/reinforcers.tsx
\* The contents of the 'reinforcers' object store.
reinforcerStore == db[STORES.REINFORCERS]

AvoidDays == 0..MaxAvoidDays

\* date-fns differenceInDays(later, earlier): full days between two instants.
differenceInDays(later, earlier) == (later - earlier) \div TicksPerDay

\* canUseReinforcer (reinforcers.tsx:97-104), evaluated at instant t.
canUseReinforcer(reinforcer, t) ==
    IF reinforcer.lastUsed = None \/ reinforcer.avoidRepetitionDays = 0
    THEN TRUE
    ELSE differenceInDays(t, reinforcer.lastUsed[1]) >= reinforcer.avoidRepetitionDays

\* The Reinforcer built by handleSubmit (reinforcers.tsx:44-54).
NewReinforcer(avoid) ==
    [usageCount |-> 0, lastUsed |-> None, avoidRepetitionDays |-> avoid]

\* The object handleUse writes (reinforcers.tsx:73-78): a copy of the rendered
\* reinforcer with lastUsed = now and usageCount + 1.
UpdatedReinforcer(reinforcer, t) ==
    [reinforcer EXCEPT !.lastUsed = Some(t),
                       !.usageCount = reinforcer.usageCount + 1]

\* A handler that has issued its write and still has to reload the list.
Handler(op, id) == [op |-> op, id |-> id, pc |-> "write", data |-> <<>>]

\* handleSubmit (reinforcers.tsx:40-69) up to its first await: the id is
\* `reinforcer-${Date.now()}`, so a second submit in the same tick collides and
\* db.add rejects (caught and logged, the list is not reloaded).
HandleSubmit(avoid) ==
    /\ clicks < MaxClicks
    /\ Len(inflight) < MaxInFlight
    /\ clicks' = clicks + 1
    /\ IF AddSucceeds(reinforcerStore, TimeId(now))
       THEN /\ db' = [db EXCEPT ![STORES.REINFORCERS] =
                                   Database_add(@, TimeId(now), NewReinforcer(avoid))]
            /\ inflight' = Append(inflight, Handler("submit", TimeId(now)))
            /\ useDone' = Database_update(useDone, TimeId(now), 0)
       ELSE UNCHANGED <<db, inflight, useDone>>
    /\ UNCHANGED <<now, reinforcers, notReinforcers>>

\* handleUse (reinforcers.tsx:71-84) up to its first await.  The button is
\* rendered from the list in React state and disabled when canUseReinforcer is
\* false (reinforcers.tsx:374-380); any state change re-renders, so the guard is
\* evaluated on the rendered list at the time of the click.  db.update is
\* issued during the click, and IndexedDB runs requests in the order issued.
HandleUse(id) ==
    /\ id \in DOMAIN reinforcers
    /\ canUseReinforcer(reinforcers[id], now)
    /\ clicks < MaxClicks
    /\ Len(inflight) < MaxInFlight
    /\ clicks' = clicks + 1
    /\ db' = [db EXCEPT ![STORES.REINFORCERS] =
                          Database_update(@, id, UpdatedReinforcer(reinforcers[id], now))]
    /\ inflight' = Append(inflight, Handler("use", id))
    /\ UNCHANGED <<now, reinforcers, useDone, notReinforcers>>

\* handleDelete (reinforcers.tsx:86-95) after the confirm() was accepted.
HandleDelete(id) ==
    /\ id \in DOMAIN reinforcers
    /\ clicks < MaxClicks
    /\ Len(inflight) < MaxInFlight
    /\ clicks' = clicks + 1
    /\ db' = [db EXCEPT ![STORES.REINFORCERS] = Database_delete(@, id)]
    /\ inflight' = Append(inflight, Handler("delete", id))
    /\ UNCHANGED <<now, reinforcers, useDone, notReinforcers>>

\* loadReinforcers (reinforcers.tsx:29-38), first half: the write of handler i
\* has succeeded and db.getAll reads the store.  Requests complete in order.
LoadReinforcersRead(i) ==
    /\ i \in 1..Len(inflight)
    /\ inflight[i].pc = "write"
    /\ \A j \in 1..(i - 1) : inflight[j].pc = "load"
    /\ inflight' = [inflight EXCEPT ![i].pc = "load", ![i].data = reinforcerStore]
    /\ UNCHANGED <<now, clicks, db, reinforcers, useDone, notReinforcers>>

\* loadReinforcers, second half: setReinforcers(data); the handler returns.
LoadReinforcersSet ==
    /\ Len(inflight) > 0
    /\ inflight[1].pc = "load"
    /\ reinforcers' = inflight[1].data
    /\ useDone' = IF inflight[1].op = "use" /\ inflight[1].id \in DOMAIN useDone
                  THEN [useDone EXCEPT ![inflight[1].id] = @ + 1]
                  ELSE useDone
    /\ inflight' = Tail(inflight)
    /\ UNCHANGED <<now, clicks, db, notReinforcers>>

\* Time passes.
Tick ==
    /\ now < MaxTime
    /\ now' = now + 1
    /\ UNCHANGED <<clicks, db, reinfVars, backupVars, behaviorVars, mediaVars,
                   keyVars, wizardVars, profileVars, analyticsVars, chatVars, promptVars, defaultVars>>

\* ------------------------------------------------------ lib/profiles.ts
\* The names of the items the application keeps in localStorage
\* (profiles.ts:5, the dashboard's ONBOARDING_KEY).
ACTIVE_PROFILE_KEY == "aba-active-profile"

ONBOARDING_KEY == "aba-tracker-onboarding-completed"

\* localStorage.setItem.
SetItem(storage, name, value) ==
    [item \in DOMAIN storage \cup {name} |->
        IF item = name THEN value ELSE storage[item]]

\* The contents of the profiles object store, when the database has one.
profileStore == db[STORES_PROFILES]

\* What the profile operations leave alone.
outsideProfiles == <<reinfVars, importPc, importQueue, importDoc, exportPc, download,
                     behaviorVars, mediaVars, wizardVars, geminiApiKey, genAI,
                     keyTouched, keysTyped, analyticsVars, chatVars, promptVars>>

notProfiles == <<outsideProfiles, defaultVars>>

\* The ids of profiles a caller may name: `profile-${Date.now()}-${random}`.
ProfileIds == {<<t, random>> : t \in {0, 1}, random \in 1..MaxRandom}

\* How a profile operation ended: resolved, rejected, or refused by a check of
\* its handler; whether it was a handler of a component, whether the
\* failure went to console.error, and whether the user was shown an alert.
Op(name, outcome, handler, logged, reported) ==
    [op |-> name, outcome |-> outcome, handler |-> handler,
     logged |-> logged, reported |-> reported]

\* getActiveProfileId (profiles.ts:23-26).
getActiveProfileId ==
    IF ACTIVE_PROFILE_KEY \in DOMAIN localStorage
    THEN Some(localStorage[ACTIVE_PROFILE_KEY]) ELSE None

\* The profile createProfile builds (profiles.ts:50-59).
NewProfile(t) == [isActive |-> TRUE, createdAt |-> t, updatedAt |-> t]

\* createProfile (profiles.ts:44-62): db.add on STORES.PROFILES.
CreateProfileOk(id) ==
    TransactionOk(STORES_PROFILES) /\ AddSucceeds(profileStore, id)

\* deactivateProfile (profiles.ts:82-88) with updateProfile (76-79): the
\* stored profile, if there is one, is put back with isActive false and a
\* new updatedAt.
Deactivated(store, profileId, t) ==
    IF profileId \in DOMAIN store
    THEN Database_update(store, profileId,
                         [store[profileId] EXCEPT !.isActive = FALSE, !.updatedAt = t])
    ELSE store

\* The test of switchProfile (profiles.ts:92-97) on the stored profile.
SwitchOk(store, profileId) ==
    profileId \in DOMAIN store /\ store[profileId].isActive

\* The profiles of a store that are active, as a store of their own.
ActiveProfiles(store) ==
    [id \in {k \in DOMAIN store : store[k].isActive} |-> store[id]]

\* createProfile called on its own.
createProfile(random) ==
    /\ clicks < MaxClicks
    /\ clicks' = clicks + 1
    /\ IF CreateProfileOk(<<now, random>>)
       THEN /\ db' = [db EXCEPT ![STORES_PROFILES] =
                         Database_add(@, <<now, random>>, NewProfile(now))]
            /\ lastOp' = Op("createProfile", "resolved", FALSE, FALSE, FALSE)
       ELSE /\ lastOp' = Op("createProfile", "rejected", FALSE, FALSE, FALSE)
            /\ UNCHANGED db
    /\ UNCHANGED <<now, alertShown, localStorage, profiles, activeProfileId,
                   activeProfile, pendingLoads, notProfiles>>

\* deactivateProfile called on its own.
deactivateProfile(profileId) ==
    /\ clicks < MaxClicks
    /\ clicks' = clicks + 1
    /\ IF TransactionOk(STORES_PROFILES)
       THEN /\ db' = [db EXCEPT ![STORES_PROFILES] = Deactivated(@, profileId, now)]
            /\ lastOp' = Op("deactivateProfile", "resolved", FALSE, FALSE, FALSE)
       ELSE /\ lastOp' = Op("deactivateProfile", "rejected", FALSE, FALSE, FALSE)
            /\ UNCHANGED db
    /\ UNCHANGED <<now, alertShown, localStorage, profiles, activeProfileId,
                   activeProfile, pendingLoads, notProfiles>>

\* switchProfile (profiles.ts:91-98) called on its own: setActiveProfileId
\* follows a db.get on STORES.PROFILES that found an active profile.
switchProfile(profileId) ==
    /\ clicks < MaxClicks
    /\ clicks' = clicks + 1
    /\ IF TransactionOk(STORES_PROFILES) /\ SwitchOk(profileStore, profileId)
       THEN /\ localStorage' = SetItem(localStorage, ACTIVE_PROFILE_KEY, profileId)
            /\ lastOp' = Op("switchProfile", "resolved", FALSE, FALSE, FALSE)
       ELSE /\ lastOp' = Op("switchProfile", "rejected", FALSE, FALSE, FALSE)
            /\ UNCHANGED localStorage
    /\ UNCHANGED <<now, db, alertShown, profiles, activeProfileId, activeProfile,
                   pendingLoads, notProfiles>>

\* initializeDefaultProfile (profiles.ts:101-128): the profile it returns.
\* Without a stored profile, or with a pointer that names none of them and
\* no active profile to fall back on, it creates `Parent`; with such a
\* pointer and an active profile, it takes the first active one; otherwise
\* it returns the profile the pointer names.
DefaultProfileCreates ==
    \/ DOMAIN profileStore = {}
    \/ /\ getActiveProfileId = None \/ getActiveProfileId[1] \notin DOMAIN profileStore
       /\ DOMAIN ActiveProfiles(profileStore) = {}

DefaultProfileId(newId) ==
    IF DefaultProfileCreates THEN newId
    ELSE IF getActiveProfileId = None \/ getActiveProfileId[1] \notin DOMAIN profileStore
    THEN Database_getAll(ActiveProfiles(profileStore))[1].id
    ELSE getActiveProfileId[1]

\* Whether initializeDefaultProfile resolves.
InitializeDefaultProfileOk(newId) ==
    /\ TransactionOk(STORES_PROFILES)
    /\ DefaultProfileCreates => AddSucceeds(profileStore, newId)

\* The store and the pointer it leaves behind when it resolves.
InitializeDefaultProfileStore(newId) ==
    IF DefaultProfileCreates
    THEN Database_add(profileStore, newId, NewProfile(now)) ELSE profileStore

InitializeDefaultProfilePointer(newId) ==
    IF getActiveProfileId = Some(DefaultProfileId(newId)) THEN localStorage
    ELSE SetItem(localStorage, ACTIVE_PROFILE_KEY, DefaultProfileId(newId))

\* loadActiveProfile of ProfileSwitcher (its mount effect and
\* handleProfileChange): initializeDefaultProfile; a rejection is caught and
\* goes to console.error only.
LoadActiveProfile(random) ==
    /\ clicks < MaxClicks
    /\ clicks' = clicks + 1
    /\ IF InitializeDefaultProfileOk(<<now, random>>)
       THEN /\ db' = [db EXCEPT ![STORES_PROFILES] =
                         InitializeDefaultProfileStore(<<now, random>>)]
            /\ localStorage' = InitializeDefaultProfilePointer(<<now, random>>)
            /\ activeProfile' = Some(DefaultProfileId(<<now, random>>))
            /\ lastOp' = Op("loadActiveProfile", "resolved", TRUE, FALSE, FALSE)
       ELSE /\ lastOp' = Op("loadActiveProfile", "rejected", TRUE, TRUE, FALSE)
            /\ UNCHANGED <<db, localStorage, activeProfile>>
    /\ UNCHANGED <<now, alertShown, profiles, activeProfileId, pendingLoads,
                   notProfiles>>

\* loadActiveProfile step by step, for invocations that overlap.  An
\* invocation awaits getAllProfiles, and then, when it has decided to create
\* `Parent`, the db.add of createProfile.
Awaiting == {"getAllProfiles", "createProfile"}

\* loadActiveProfile is called (ProfileSwitcher's mount effect on a page or
\* in another tab, handleProfileChange) and initializeDefaultProfile reaches
\* its await of getAllProfiles (profiles.ts:102).  overlapped: another
\* invocation was awaiting while this one was.
LoadActiveProfileStart ==
    /\ Len(loads) < MaxLoads
    /\ LET pending == \E i \in DOMAIN loads : loads[i].pc \in Awaiting IN
       loads' = Append([i \in DOMAIN loads |->
                           IF loads[i].pc \in Awaiting
                           THEN [loads[i] EXCEPT !.overlapped = TRUE] ELSE loads[i]],
                       [pc |-> "getAllProfiles", overlapped |-> pending, id |-> None])
    /\ UNCHANGED <<now, clicks, db, alertShown, localStorage, profileVars,
                   parentsCreated, outsideProfiles>>

\* The await of the load-th invocation settles and it runs on to its next
\* await or to its end (profiles.ts:102-128, ProfileSwitcher 20-29).  After
\* getAllProfiles it returns a stored profile or calls createProfile, which
\* builds the profile and awaits db.add; after db.add it sets the pointer.
InitializeDefaultProfileStep(load, random) ==
    /\ load \in DOMAIN loads
    /\ loads[load].pc \in Awaiting
    /\ IF loads[load].pc = "getAllProfiles"
       THEN IF ~TransactionOk(STORES_PROFILES)
            THEN /\ loads' = [loads EXCEPT ![load].pc = "rejected"]
                 /\ lastOp' = Op("loadActiveProfile", "rejected", TRUE, TRUE, FALSE)
                 /\ UNCHANGED <<db, localStorage, activeProfile, parentsCreated>>
            ELSE IF DefaultProfileCreates
            THEN /\ loads' = [loads EXCEPT ![load].pc = "createProfile",
                                           ![load].id = Some(<<now, random>>)]
                 /\ UNCHANGED <<db, localStorage, activeProfile, lastOp, parentsCreated>>
            ELSE /\ loads' = [loads EXCEPT ![load].pc = "resolved"]
                 /\ localStorage' = InitializeDefaultProfilePointer(<<now, random>>)
                 /\ activeProfile' = Some(DefaultProfileId(<<now, random>>))
                 /\ lastOp' = Op("loadActiveProfile", "resolved", TRUE, FALSE, FALSE)
                 /\ UNCHANGED <<db, parentsCreated>>
       ELSE LET id == loads[load].id[1] IN
            IF AddSucceeds(profileStore, id)
            THEN /\ db' = [db EXCEPT ![STORES_PROFILES] =
                              Database_add(@, id, NewProfile(id[1]))]
                 /\ localStorage' = SetItem(localStorage, ACTIVE_PROFILE_KEY, id)
                 /\ activeProfile' = Some(id)
                 /\ parentsCreated' = parentsCreated + 1
                 /\ loads' = [loads EXCEPT ![load].pc = "resolved"]
                 /\ lastOp' = Op("loadActiveProfile", "resolved", TRUE, FALSE, FALSE)
            ELSE /\ loads' = [loads EXCEPT ![load].pc = "rejected"]
                 /\ lastOp' = Op("loadActiveProfile", "rejected", TRUE, TRUE, FALSE)
                 /\ UNCHANGED <<db, localStorage, activeProfile, parentsCreated>>
    /\ UNCHANGED <<now, clicks, alertShown, profiles, activeProfileId, pendingLoads,
                   outsideProfiles>>

\* ProfileManager is opened: its mount effect calls loadProfiles
\* (ProfileManager.tsx:31-33).
OpenProfileManager ==
    /\ clicks < MaxClicks
    /\ clicks' = clicks + 1
    /\ pendingLoads' = pendingLoads + 1
    /\ UNCHANGED <<now, db, alertShown, localStorage, profiles, activeProfileId,
                   activeProfile, lastOp, notProfiles>>

\* loadProfiles (ProfileManager.tsx:35-39) gets its answer from
\* getAllProfiles.  Nothing catches the rejection of the call in the mount
\* effect.
LoadProfiles ==
    /\ pendingLoads > 0
    /\ pendingLoads' = pendingLoads - 1
    /\ IF TransactionOk(STORES_PROFILES)
       THEN /\ profiles' = ActiveProfiles(profileStore)
            /\ activeProfileId' = getActiveProfileId
            /\ lastOp' = Op("loadProfiles", "resolved", TRUE, FALSE, FALSE)
       ELSE /\ lastOp' = Op("loadProfiles", "rejected", TRUE, FALSE, FALSE)
            /\ UNCHANGED <<profiles, activeProfileId>>
    /\ UNCHANGED <<now, clicks, db, alertShown, localStorage, activeProfile,
                   notProfiles>>

\* handleAddProfile (ProfileManager.tsx:41-61) with a name typed:
\* createProfile, then loadProfiles; a rejection is logged and alerted.
\* onProfileChange makes ProfileSwitcher run LoadActiveProfile again.
HandleAddProfile(random) ==
    /\ clicks < MaxClicks
    /\ clicks' = clicks + 1
    /\ IF CreateProfileOk(<<now, random>>)
       THEN /\ db' = [db EXCEPT ![STORES_PROFILES] =
                         Database_add(@, <<now, random>>, NewProfile(now))]
            /\ pendingLoads' = pendingLoads + 1
            /\ lastOp' = Op("handleAddProfile", "resolved", TRUE, FALSE, FALSE)
            /\ UNCHANGED alertShown
       ELSE /\ alertShown' = "common.error"
            /\ lastOp' = Op("handleAddProfile", "rejected", TRUE, TRUE, TRUE)
            /\ UNCHANGED <<db, pendingLoads>>
    /\ UNCHANGED <<now, localStorage, profiles, activeProfileId, activeProfile,
                   notProfiles>>

\* handleSwitchProfile (ProfileManager.tsx:63-73), clicked on a listed
\* profile.
HandleSwitchProfile(profileId) ==
    /\ profileId \in DOMAIN profiles
    /\ clicks < MaxClicks
    /\ clicks' = clicks + 1
    /\ IF TransactionOk(STORES_PROFILES) /\ SwitchOk(profileStore, profileId)
       THEN /\ localStorage' = SetItem(localStorage, ACTIVE_PROFILE_KEY, profileId)
            /\ activeProfileId' = Some(profileId)
            /\ lastOp' = Op("handleSwitchProfile", "resolved", TRUE, FALSE, FALSE)
            /\ UNCHANGED alertShown
       ELSE /\ alertShown' = "common.error"
            /\ lastOp' = Op("handleSwitchProfile", "rejected", TRUE, TRUE, TRUE)
            /\ UNCHANGED <<localStorage, activeProfileId>>
    /\ UNCHANGED <<now, db, profiles, activeProfile, pendingLoads, notProfiles>>

\* handleDeactivateProfile (ProfileManager.tsx:75-101), clicked on a listed
\* profile and confirmed.  The test for the last profile and the choice of
\* the profile to switch to read the rendered list; deactivateProfile and
\* switchProfile read the store.
HandleDeactivateProfile(profileId) ==
    /\ profileId \in DOMAIN profiles
    /\ clicks < MaxClicks
    /\ clicks' = clicks + 1
    /\ IF Cardinality(DOMAIN profiles) <= 1
       THEN /\ alertShown' = "profile.cannot_delete_last"
            /\ lastOp' = Op("handleDeactivateProfile", "refused", TRUE, FALSE, TRUE)
            /\ UNCHANGED <<db, localStorage, activeProfileId, pendingLoads>>
       ELSE IF ~TransactionOk(STORES_PROFILES)
       THEN /\ alertShown' = "common.error"
            /\ lastOp' = Op("handleDeactivateProfile", "rejected", TRUE, TRUE, TRUE)
            /\ UNCHANGED <<db, localStorage, activeProfileId, pendingLoads>>
       ELSE LET store == Deactivated(profileStore, profileId, now)
                remaining == Database_getAll(
                                 [id \in DOMAIN profiles \ {profileId} |-> profiles[id]])
                next == remaining[1].id
            IN /\ db' = [db EXCEPT ![STORES_PROFILES] = store]
               /\ IF activeProfileId # Some(profileId)
                  THEN /\ pendingLoads' = pendingLoads + 1
                       /\ lastOp' = Op("handleDeactivateProfile", "resolved",
                                       TRUE, FALSE, FALSE)
                       /\ UNCHANGED <<localStorage, activeProfileId, alertShown>>
                  ELSE IF SwitchOk(store, next)
                  THEN /\ localStorage' = SetItem(localStorage, ACTIVE_PROFILE_KEY, next)
                       /\ activeProfileId' = Some(next)
                       /\ pendingLoads' = pendingLoads + 1
                       /\ lastOp' = Op("handleDeactivateProfile", "resolved",
                                       TRUE, FALSE, FALSE)
                       /\ UNCHANGED alertShown
                  ELSE /\ alertShown' = "common.error"
                       /\ lastOp' = Op("handleDeactivateProfile", "rejected",
                                       TRUE, TRUE, TRUE)
                       /\ UNCHANGED <<localStorage, activeProfileId, pendingLoads>>
    /\ UNCHANGED <<now, profiles, activeProfile, notProfiles>>

\* ---------------------------------------------------- lib/analytics.ts
\* Dates of entries, in days: two days of one calendar week and one day of the
\* next.
Dates == {0, 1, 7}

\* The calendar week a date lies in.
WeekOf == [date \in Dates |-> date \div 7]

\* Severities of the entries the analytics page has loaded.
LoggedSeverities == {1, 5}

RECURSIVE Sum(_, _)
Sum(f, S) ==
    IF S = {} THEN 0
    ELSE LET x == CHOOSE x \in S : TRUE IN f[x] + Sum(f, S \ {x})

\* behaviors.length
Total(log) == Sum(log, DOMAIN log)

\* The keys of the groups in the order of `sorted` (analytics.ts:93-95).
RECURSIVE Ascending(_)
Ascending(S) ==
    IF S = {} THEN <<>>
    ELSE LET least == CHOOSE x \in S : \A y \in S : x <= y
         IN <<least>> \o Ascending(S \ {least})

\* The element of weeklyAverages for the entries whose key is week
\* (analytics.ts:100-119).  avgSeverity is the running mean, kept here as the
\* sum and the count it is the quotient of.
WeeklyAverage(log, key, week) ==
    LET entries == {entry \in DOMAIN log : key[entry[1]] = week}
    IN [week |-> week,
        sum |-> Sum([entry \in entries |-> entry[2] * log[entry]], entries),
        count |-> Sum(log, entries)]

WeeklyAverages(log, key) ==
    LET weeks == Ascending({key[entry[1]] : entry \in {e \in DOMAIN log : log[e] > 0}})
    IN [i \in 1..Len(weeks) |-> WeeklyAverage(log, key, weeks[i])]

\* prev.avgSeverity - curr.avgSeverity > 0.4, over whole numbers.
ChangeAbove(prev, curr) ==
    5 * (prev.sum * curr.count - curr.sum * prev.count) > 2 * prev.count * curr.count

\* The loop over consecutive elements (analytics.ts:122-151).
SeverityMilestones(weeklyAverages) ==
    {[date |-> weeklyAverages[i].week,
      type |-> IF ChangeAbove(weeklyAverages[i - 1], weeklyAverages[i])
               THEN "improvement" ELSE "regression",
      metric |-> "severity"] :
        i \in {j \in 2..Len(weeklyAverages) :
                  /\ weeklyAverages[j].count >= 3
                  /\ \/ ChangeAbove(weeklyAverages[j - 1], weeklyAverages[j])
                     \/ ChangeAbove(weeklyAverages[j], weeklyAverages[j - 1])}}

\* The frequency milestone (analytics.ts:154-170):
\* recentWeek.count < previousWeek.count * 0.5.
FrequencyMilestones(weeklyAverages) ==
    LET n == Len(weeklyAverages) IN
    IF n >= 2 /\ 2 * weeklyAverages[n].count < weeklyAverages[n - 1].count
    THEN {[date |-> weeklyAverages[n].week, type |-> "improvement", metric |-> "frequency"]}
    ELSE {}

\* The key detectMilestones groups by: format(startOfDay(new Date(date)),
\* 'yyyy-MM-dd') (analytics.ts:102-105), the day itself.
weekStart == [date \in Dates |-> date]

\* detectMilestones (analytics.ts:85-173).
detectMilestones(log) ==
    IF Total(log) < 7 THEN {}
    ELSE SeverityMilestones(WeeklyAverages(log, weekStart))
             \cup FrequencyMilestones(WeeklyAverages(log, weekStart))

\* An entry is stored and the analytics page loads and renders again:
\* calculateBehaviorAnalytics(behaviors) (analytics.tsx:95, analytics.ts:71).
LogBehavior(date, severity) ==
    /\ Total(pageBehaviors) < MaxEntries
    /\ pageBehaviors' = [pageBehaviors EXCEPT ![<<date, severity>>] = @ + 1]
    /\ milestones' = detectMilestones(pageBehaviors')
    /\ UNCHANGED <<now, clicks, db, reinfVars, backupVars, behaviorVars, mediaVars,
                   keyVars, wizardVars, profileVars, chatVars, promptVars, defaultVars>>

InitProfiles ==
    /\ loads = <<>>
    /\ parentsCreated = 0
    /\ profiles = <<>>
    /\ activeProfileId = None
    /\ activeProfile = None
    /\ pendingLoads = 0
    /\ lastOp = Op("none", "resolved", FALSE, FALSE, FALSE)

\* A backup document: { version, exportDate, data: { profiles, behaviors,
\* reinforcers, crisisProtocols } }.  Each array is a sequence of
\* [id, item]; data = None is a document without a `data` member.
BackupData(profileList, behaviors, reinforcerList, crisisProtocols) ==
    [profiles |-> profileList, behaviors |-> behaviors,
     reinforcers |-> reinforcerList, crisisProtocols |-> crisisProtocols]

BackupDocument(data) == [version |-> 2, data |-> data]

\* One array of the backup as writes to one object store.
WritesTo(storeName, records) ==
    [i \in 1..Len(records) |->
        [store |-> storeName, id |-> records[i].id, item |-> records[i].item]]

\* The order in which importAllData writes (profiles.ts:159-202): profiles,
\* behaviors, reinforcers, crisis protocols.
ImportOrder(data) ==
    WritesTo(STORES_PROFILES, data.profiles)
        \o WritesTo(STORES.BEHAVIORS, data.behaviors)
        \o WritesTo(STORES.REINFORCERS, data.reinforcers)
        \o WritesTo(STORES.CRISIS_PROTOCOLS, data.crisisProtocols)

\* Mutant of ImportWrite: an existing record is kept, the backup's is dropped.
ImportWriteKeepExisting(store, id, item) == Database_add(store, id, item)

\* One record of importAllData (profiles.ts:162-167 and its three copies):
\* try db.add; when it rejects, db.update.
ImportWrite(store, id, item) ==
    IF AddSucceeds(store, id) THEN Database_add(store, id, item)
    ELSE Database_update(store, id, item)

\* exportAllData (profiles.ts:131-149): Promise.all over db.getAll of the four
\* stores; it rejects when any of them rejects.
ExportSucceeds ==
    \A name \in {STORES.BEHAVIORS, STORES.REINFORCERS,
                 STORES.CRISIS_PROTOCOLS, STORES_PROFILES} : TransactionOk(name)

exportAllData ==
    BackupDocument(Some(BackupData(Database_getAll(db[STORES_PROFILES]),
                                   Database_getAll(db[STORES.BEHAVIORS]),
                                   Database_getAll(db[STORES.REINFORCERS]),
                                   Database_getAll(db[STORES.CRISIS_PROTOCOLS]))))

\* handleExportData (ProfileManager.tsx:103-117): the document is downloaded,
\* or the rejection is caught and alerted.
HandleExportData ==
    /\ clicks < MaxClicks
    /\ clicks' = clicks + 1
    /\ IF ExportSucceeds
       THEN /\ download' = Some(exportAllData)
            /\ exportPc' = "done"
            /\ UNCHANGED alertShown
       ELSE /\ exportPc' = "failed"
            /\ alertShown' = "common.error"
            /\ UNCHANGED download
    /\ UNCHANGED <<now, db, importPc, importQueue, importDoc, notBackup>>

\* handleImportData (ProfileManager.tsx:119-137) up to the first write, for an
\* uploaded document the user confirmed.  importAllData throws at once when
\* the document has no `data` (profiles.ts:153-155).
HandleImportData(doc) ==
    /\ clicks < MaxClicks
    /\ importPc # "running"
    /\ clicks' = clicks + 1
    /\ importDoc' = Some(doc)
    /\ IF doc.data = None
       THEN /\ importPc' = "failed"
            /\ importQueue' = <<>>
            /\ alertShown' = "profile.import_error"
       ELSE /\ importPc' = "running"
            /\ importQueue' = ImportOrder(doc.data[1])
            /\ UNCHANGED alertShown
    /\ UNCHANGED <<now, db, exportPc, download, notBackup>>

\* store.add and store.put throw DataError for a record that has no value at
\* the key path `id` (db.ts:32, 66, 78): the promise rejects.
HasKey(id) == id # None

\* One iteration of a loop of importAllData.  When the store does not exist,
\* or the record has no id, both db.add and db.update reject, and the second
\* rejection leaves importAllData; handleImportData catches it and alerts.
ImportStep ==
    /\ importPc = "running"
    /\ importQueue # <<>>
    /\ LET w == Head(importQueue) IN
       IF TransactionOk(w.store) /\ HasKey(w.id)
       THEN /\ db' = [db EXCEPT ![w.store] = ImportWrite(@, w.id, w.item)]
            /\ importQueue' = Tail(importQueue)
            /\ UNCHANGED <<importPc, alertShown>>
       ELSE /\ importPc' = "failed"
            /\ importQueue' = <<>>
            /\ alertShown' = "profile.import_error"
            /\ UNCHANGED db
    /\ UNCHANGED <<now, clicks, importDoc, exportPc, download, notBackup>>

\* importAllData has returned: handleImportData awaits loadProfiles()
\* (ProfileManager.tsx:129), whose getAllProfiles rejects when the profiles
\* store does not exist; the catch block then alerts an import error although
\* every record was written.
ImportFinish ==
    /\ importPc = "running"
    /\ importQueue = <<>>
    /\ importPc' = "done"
    /\ IF TransactionOk(STORES_PROFILES)
       THEN /\ alertShown' = "profile.import_success"
            /\ profiles' = ActiveProfiles(profileStore)
            /\ activeProfileId' = getActiveProfileId
       ELSE /\ alertShown' = "profile.import_error"
            /\ UNCHANGED <<profiles, activeProfileId>>
    /\ UNCHANGED <<now, clicks, db, importQueue, importDoc, exportPc, download,
                   reinfVars, behaviorVars, mediaVars, keyVars, wizardVars,
                   activeProfile, pendingLoads, lastOp, analyticsVars, chatVars, promptVars, defaultVars>>

InitBackup ==
    /\ importPc = "idle"
    /\ importQueue = <<>>
    /\ importDoc = None
    /\ exportPc = "idle"
    /\ download = None
    /\ alertShown = ""

\* ------------------------------------------------------ behaviour entries
\* A JSON value in the place of a severity: a number, a string or null.  `lead`
\* is the integer a number holds, or the integer a string starts with (None for
\* a string such as "high" and for null).
Num(n) == [kind |-> "num", lead |-> Some(n)]
Str(lead) == [kind |-> "str", lead |-> lead]
Null == [kind |-> "null", lead |-> None]

\* JavaScript truthiness, as `x || y` tests it: 0 and null are falsy, every
\* non-empty string is truthy.
Truthy(v) == (v.kind = "num" /\ v.lead[1] # 0) \/ v.kind = "str"

Or(a, b) == IF Truthy(a) THEN a ELSE b

\* parseInt(v): the leading integer, or NaN (None).
parseInt(v) == v.lead

\* SeverityLevel (types/index.ts:3-9).
IsSeverityLevel(v) == v.kind = "num" /\ v.lead[1] >= 1 /\ v.lead[1] <= 5

SeverityLevel_MODERATE == Num(2)

\* mapSeverity (pdf-import.ts:194-200).
mapSeverity(severity) ==
    LET num == parseInt(severity) IN
    IF num # None /\ num[1] >= 1 /\ num[1] <= 5 THEN Num(num[1])
    ELSE SeverityLevel_MODERATE

\* The severities a Gemini reply may carry.
ReplySeverities == {Null, Num(0), Num(4), Num(7), Str(Some(3)), Str(None)}

\* The remaining fields of an entry, as one value.
Texts == {"a", "b"}

\* The Partial<BehaviorEntry> extractBehaviorData hands to onBehaviorExtracted
\* (multimodal-conversation.ts:502-513, voice-conversation.ts:295-307).
extractBehaviorData(reply) ==
    [severity |-> Or(reply.severity, SeverityLevel_MODERATE), text |-> reply.text]

\* One element of the list extractBehaviorsFromPDF returns (pdf-import.ts:122-135).
extractBehaviorsFromPDF(b) ==
    [severity |-> mapSeverity(b.severity), text |-> b.text]

\* The form of a freshly mounted new-behaviour page (new.tsx:29-41).
InitialFormData == [severity |-> SeverityLevel_MODERATE, text |-> "a"]

\* The contents of the 'behaviors' object store.
behaviorStore == db[STORES.BEHAVIORS]

\* handleChange (new.tsx:43-53) for the severity <select>, whose options are
\* SeverityLevel.MILD .. CRITICAL (new.tsx:337-341): parseInt of "1".."5".
HandleChangeSeverity(option) ==
    /\ clicks < MaxClicks
    /\ clicks' = clicks + 1
    /\ formData' = [formData EXCEPT !.severity = Num(parseInt(Str(Some(option)))[1])]
    /\ UNCHANGED <<now, db, savePc, saveQueue, alertShown, notBehaviors>>

\* handleChange for the other fields.
HandleChangeText(value) ==
    /\ clicks < MaxClicks
    /\ clicks' = clicks + 1
    /\ formData' = [formData EXCEPT !.text = value]
    /\ UNCHANGED <<now, db, savePc, saveQueue, alertShown, notBehaviors>>

\* handleBehaviorExtracted (new.tsx:91-111): the conversation's extraction
\* pre-fills the form; `behavior.severity || prev.severity`.
HandleBehaviorExtracted(behavior) ==
    /\ clicks < MaxClicks
    /\ clicks' = clicks + 1
    /\ formData' = [severity |-> Or(behavior.severity, formData.severity),
                    text |-> behavior.text]
    /\ UNCHANGED <<now, db, savePc, saveQueue, alertShown, notBehaviors>>

\* handleSubmit (new.tsx:113-143): the entry is built from the form with id
\* `behavior-${Date.now()}` and added; router.push leaves the page, so the next
\* visit starts from a fresh form and an empty key.  A rejected add is alerted.
HandleSubmitBehavior ==
    /\ clicks < MaxClicks
    /\ clicks' = clicks + 1
    /\ db' = [db EXCEPT ![STORES.BEHAVIORS] =
                 Database_add(@, TimeId(now),
                              [severity |-> formData.severity, text |-> formData.text])]
    /\ IF AddSucceeds(behaviorStore, TimeId(now))
       THEN /\ formData' = InitialFormData
            /\ geminiApiKey' = ""
            /\ UNCHANGED alertShown
       ELSE /\ alertShown' = "Error saving behavior. Please try again."
            /\ UNCHANGED <<formData, geminiApiKey>>
    /\ UNCHANGED <<now, savePc, saveQueue, reinfVars, importPc, importQueue, importDoc,
                   exportPc, download, mediaVars, wizardVars, profileVars, analyticsVars, chatVars, promptVars, defaultVars, genAI,
                   localStorage, keyTouched, keysTyped>>

\* handleDelete of the behaviours list (analytics.tsx:519-528), confirmed.
HandleDeleteBehavior(id) ==
    /\ clicks < MaxClicks
    /\ clicks' = clicks + 1
    /\ db' = [db EXCEPT ![STORES.BEHAVIORS] = Database_delete(@, id)]
    /\ UNCHANGED <<now, formData, savePc, saveQueue, alertShown, notBehaviors>>

\* handleBehaviorsExtracted (analytics.tsx:556-589), entered with the list the
\* PDF wizard passes on.
HandleBehaviorsExtracted(behaviors) ==
    /\ clicks < MaxClicks
    /\ savePc # "running"
    /\ clicks' = clicks + 1
    /\ savePc' = "running"
    /\ saveQueue' = behaviors
    /\ UNCHANGED <<now, db, formData, alertShown, notBehaviors>>

\* Mutant of SaveExtractedStep: the loop runs as one transaction, a rejected
\* add takes the store back to empty.
SaveExtractedStepAtomic(random) ==
    /\ savePc = "running"
    /\ saveQueue # <<>>
    /\ LET behavior == Head(saveQueue)
           entry == [severity |-> Or(behavior.severity, Num(2)), text |-> behavior.text]
       IN IF AddSucceeds(behaviorStore, <<now, random>>)
          THEN /\ db' = [db EXCEPT ![STORES.BEHAVIORS] = Database_add(@, <<now, random>>, entry)]
               /\ saveQueue' = Tail(saveQueue)
               /\ UNCHANGED <<savePc, alertShown>>
          ELSE /\ db' = [db EXCEPT ![STORES.BEHAVIORS] = <<>>]
               /\ saveQueue' = <<>>
               /\ savePc' = "failed"
               /\ alertShown' = "Error saving imported behaviors"
    /\ UNCHANGED <<now, clicks, formData, notBehaviors>>

\* One iteration of its loop: the entry gets the id
\* `behavior-${Date.now()}-${random}` and `behavior.severity || 2`, and is
\* added.  A rejected add leaves the loop; the catch block alerts.
SaveExtractedStep(random) ==
    /\ savePc = "running"
    /\ saveQueue # <<>>
    /\ LET behavior == Head(saveQueue)
           entry == [severity |-> Or(behavior.severity, Num(2)), text |-> behavior.text]
       IN /\ db' = [db EXCEPT ![STORES.BEHAVIORS] = Database_add(@, <<now, random>>, entry)]
          /\ IF AddSucceeds(behaviorStore, <<now, random>>)
             THEN /\ saveQueue' = Tail(saveQueue)
                  /\ UNCHANGED <<savePc, alertShown>>
             ELSE /\ saveQueue' = <<>>
                  /\ savePc' = "failed"
                  /\ alertShown' = "Error saving imported behaviors"
    /\ UNCHANGED <<now, clicks, formData, notBehaviors>>

\* The loop is over: the list is reloaded and setShowPDFImport(false)
\* unmounts the wizard (analytics.tsx:580-584, 777-783); its React state is
\* gone, and the wizard opened next starts on the upload step.
SaveExtractedFinish ==
    /\ savePc = "running"
    /\ saveQueue = <<>>
    /\ savePc' = "done"
    /\ files' = 0
    /\ processing' = FALSE
    /\ extractedBehaviors' = <<>>
    /\ currentStep' = "upload"
    /\ error' = None
    /\ processFiles' = 0
    /\ processIndex' = 0
    /\ allBehaviors' = <<>>
    /\ UNCHANGED <<now, clicks, db, formData, saveQueue, alertShown, reinfVars,
                   importPc, importQueue, importDoc, exportPc, download, mediaVars,
                   keyVars, profileVars, analyticsVars, chatVars, promptVars, defaultVars, processRun, failedRuns, wizardEvent,
                   importedBehaviors>>

InitBehaviors ==
    /\ formData = InitialFormData
    /\ savePc = "idle"
    /\ saveQueue = <<>>

\* ------------------------------------------ lib/multimodal-conversation.ts
\* The tracks of the n-th stream getUserMedia returned.
Track(n, kind) == <<n, kind>>

\* Streams granted so far.
streamCount == Cardinality({track[1] : track \in DOMAIN tracks})

\* What the conversation and its component leave alone.
notMedia == <<now, clicks, db, reinfVars, backupVars, behaviorVars, keyVars,
              wizardVars, profileVars, analyticsVars, chatVars, promptVars, defaultVars>>

\* MediaStreamTrack.stop() on every track of the streams: they end.
StopTracks(stopped) ==
    [track \in DOMAIN tracks |-> IF track \in stopped THEN "ended" ELSE tracks[track]]

\* A MediaRecorder that is recording or paused.
Active(recorder) == recorder \in {"recording", "paused"}

\* MediaRecorder.stop(), and a recorder whose tracks have all ended: inactive.
Stopped(recorder) == IF Active(recorder) THEN "inactive" ELSE recorder

\* The component's effect (MultimodalConversation.tsx:53-96) builds a
\* conversation: the constructor (multimodal-conversation.ts:34-58) leaves
\* every field at its initial value.  The tracks are the browser's.
Mount(video) ==
    /\ ~mounted
    /\ startPc = "idle"
    /\ pendingStop = {}
    /\ uploading = 0
    /\ ~Active(audioRecorder)
    /\ ~Active(videoRecorder)
    /\ mounted' = TRUE
    /\ enableVideo' = video
    /\ audioStream' = {}
    /\ videoStream' = {}
    /\ audioRecorder' = "null"
    /\ videoRecorder' = "null"
    /\ isRecording' = FALSE
    /\ audioChunks' = 0
    /\ videoChunks' = 0
    /\ invalidState' = FALSE
    /\ UNCHANGED <<startPc, tracks, pendingStop, uploading, lastUpload,
                   uiIsRecording, uiIsPaused, notMedia>>

\* handleStartRecording (MultimodalConversation.tsx:139-150) up to the await
\* of getUserMedia in startConversation (multimodal-conversation.ts:60-84).
\* The button is rendered while the component's isRecording is false and is
\* disabled while isProcessing.
HandleStartRecording ==
    /\ mounted
    /\ ~uiIsRecording
    /\ startPc = "idle"
    /\ streamCount < MaxStreams
    /\ startPc' = "getUserMedia"
    /\ UNCHANGED <<mounted, enableVideo, classVars, audioChunks, videoChunks,
                   uploading, lastUpload, uiIsRecording, uiIsPaused, invalidState, notMedia>>

\* getUserMedia rejects (permission denied, no device): the catch block
\* reports the error and rethrows (multimodal-conversation.ts:110-114).
GetUserMediaRejected ==
    /\ startPc = "getUserMedia"
    /\ startPc' = "idle"
    /\ UNCHANGED <<mounted, enableVideo, classVars, audioChunks, videoChunks,
                   uploading, lastUpload, uiIsRecording, uiIsPaused, invalidState, notMedia>>

\* getUserMedia resolves with live tracks and startConversation runs on to
\* its next await (multimodal-conversation.ts:84-108).  audioOk: the
\* AudioContext and MediaRecorder constructors of initializeAudioRecording
\* accept the stream and the mime type; videoOk likewise for
\* initializeVideoRecording.  A constructor that throws lands in the catch
\* block (lines 110-114), which stops no track.
GetUserMediaResolved(audioOk, videoOk) ==
    /\ startPc = "getUserMedia"
    /\ LET n == streamCount + 1
           audioTracks == {Track(n, "audio")}
           videoTracks == IF enableVideo THEN {Track(n, "video")} ELSE {}
           stream == audioTracks \cup videoTracks
           started == audioOk /\ (enableVideo => videoOk)
       IN /\ tracks' = [track \in DOMAIN tracks \cup stream |->
                           IF track \in stream THEN "live" ELSE tracks[track]]
          /\ audioStream' = audioTracks
          /\ audioRecorder' = IF audioOk THEN "recording" ELSE audioRecorder
          /\ videoStream' = IF audioOk /\ enableVideo THEN videoTracks ELSE videoStream
          /\ videoRecorder' = IF audioOk /\ enableVideo /\ videoOk THEN "recording"
                              ELSE videoRecorder
          /\ isRecording' = IF started THEN TRUE ELSE isRecording
          /\ startPc' = IF started THEN "sendInitialPrompt" ELSE "idle"
    /\ UNCHANGED <<mounted, enableVideo, pendingStop, audioChunks, videoChunks,
                   uploading, lastUpload, uiIsRecording, uiIsPaused, invalidState, notMedia>>

\* sendInitialPrompt returns (generateResponse catches its own errors,
\* multimodal-conversation.ts:409-452) and handleStartRecording sets the
\* component's isRecording (MultimodalConversation.tsx:143-144).
SendInitialPromptDone ==
    /\ startPc = "sendInitialPrompt"
    /\ startPc' = "idle"
    /\ uiIsRecording' = mounted
    /\ UNCHANGED <<mounted, enableVideo, classVars, audioChunks, videoChunks,
                   uploading, lastUpload, uiIsPaused, invalidState, notMedia>>

\* ondataavailable of the audio recorder's timer (lines 126-130).
AudioDataAvailable ==
    /\ audioRecorder = "recording"
    /\ audioChunks < MaxChunks
    /\ audioChunks' = audioChunks + 1
    /\ UNCHANGED <<mounted, enableVideo, startPc, classVars, videoChunks,
                   uploading, lastUpload, uiIsRecording, uiIsPaused, invalidState, notMedia>>

\* ondataavailable of the video recorder's timer (lines 145-149).
VideoDataAvailable ==
    /\ videoRecorder = "recording"
    /\ videoChunks < MaxChunks
    /\ videoChunks' = videoChunks + 1
    /\ UNCHANGED <<mounted, enableVideo, startPc, classVars, audioChunks,
                   uploading, lastUpload, uiIsRecording, uiIsPaused, invalidState, notMedia>>

\* stopRecording (multimodal-conversation.ts:522-540).  MediaRecorder.stop()
\* on an inactive recorder throws InvalidStateError, which leaves the method
\* where it is.  Stopping the tracks of a recorder the method did not stop
\* (isRecording false) ends its stream, and the browser stops that recorder.
\* A stopped recorder queues its last dataavailable event and its stop event.
stopRecordingThrows == isRecording /\ "inactive" \in {audioRecorder, videoRecorder}

stopRecording ==
    IF isRecording /\ audioRecorder = "inactive"
    THEN UNCHANGED classVars
    ELSE IF isRecording /\ videoRecorder = "inactive"
    THEN /\ audioRecorder' = Stopped(audioRecorder)
         /\ pendingStop' = pendingStop \cup
                (IF Active(audioRecorder) THEN {"audio"} ELSE {})
         /\ UNCHANGED <<tracks, audioStream, videoStream, videoRecorder, isRecording>>
    ELSE /\ audioRecorder' = Stopped(audioRecorder)
         /\ videoRecorder' = Stopped(videoRecorder)
         /\ pendingStop' = pendingStop
                \cup (IF Active(audioRecorder) THEN {"audio"} ELSE {})
                \cup (IF Active(videoRecorder) THEN {"video"} ELSE {})
         /\ isRecording' = FALSE
         /\ tracks' = StopTracks(audioStream \cup videoStream)
         /\ UNCHANGED <<audioStream, videoStream>>

\* handleStopRecording (MultimodalConversation.tsx:152-156).
HandleStopRecording ==
    /\ mounted
    /\ uiIsRecording
    /\ stopRecording
    /\ IF stopRecordingThrows THEN UNCHANGED <<uiIsRecording, uiIsPaused>>
       ELSE uiIsRecording' = FALSE /\ uiIsPaused' = FALSE
    /\ UNCHANGED <<mounted, enableVideo, startPc, audioChunks, videoChunks,
                   uploading, lastUpload, invalidState, notMedia>>

\* destroy (multimodal-conversation.ts:577-582), called by the cleanup of
\* the component's effect (MultimodalConversation.tsx:92-95).  closing: the
\* component unmounts and its React state goes; otherwise the effect re-runs
\* for changed dependencies and the React state stays.
Destroy(closing) ==
    /\ mounted
    /\ stopRecording
    /\ mounted' = FALSE
    /\ uiIsRecording' = (IF closing THEN FALSE ELSE uiIsRecording)
    /\ uiIsPaused' = (IF closing THEN FALSE ELSE uiIsPaused)
    /\ UNCHANGED <<enableVideo, startPc, audioChunks, videoChunks,
                   uploading, lastUpload, invalidState, notMedia>>

\* pauseRecording / resumeRecording (multimodal-conversation.ts:542-550):
\* MediaRecorder.pause() and resume() throw InvalidStateError on an inactive
\* recorder and are skipped on a null one.
PauseResume(recorder, state) == IF Active(recorder) THEN state ELSE recorder

\* A pause() or resume() call of the methods below throws InvalidStateError.
pauseResumeThrows == "inactive" \in {audioRecorder, videoRecorder}

\* pauseRecording (multimodal-conversation.ts:542-545) with state "paused"
\* and resumeRecording (lines 547-550) with state "recording": the call on
\* the audio recorder, then the call on the video recorder; neither looks at
\* isRecording or at the recorder's state.
pauseOrResume(state) ==
    IF audioRecorder = "inactive"
    THEN /\ invalidState' = TRUE
         /\ UNCHANGED <<audioRecorder, videoRecorder>>
    ELSE IF videoRecorder = "inactive"
    THEN /\ audioRecorder' = PauseResume(audioRecorder, state)
         /\ invalidState' = TRUE
         /\ UNCHANGED videoRecorder
    ELSE /\ audioRecorder' = PauseResume(audioRecorder, state)
         /\ videoRecorder' = PauseResume(videoRecorder, state)
         /\ UNCHANGED invalidState

pauseRecording == pauseOrResume("paused")

resumeRecording == pauseOrResume("recording")

\* interrupt (multimodal-conversation.ts:552-563): pauseRecording, then
\* resumeRecording unless pauseRecording threw.
interrupt ==
    IF pauseResumeThrows THEN pauseRecording ELSE resumeRecording

\* handlePauseResume (MultimodalConversation.tsx:158-166).
HandlePauseResume ==
    /\ mounted
    /\ uiIsRecording
    /\ IF uiIsPaused THEN resumeRecording ELSE pauseRecording
    /\ uiIsPaused' = (IF pauseResumeThrows THEN uiIsPaused ELSE ~uiIsPaused)
    /\ UNCHANGED <<mounted, enableVideo, startPc, tracks, audioStream, videoStream,
                   isRecording, pendingStop, audioChunks, videoChunks, uploading,
                   lastUpload, uiIsRecording, notMedia>>

\* handleInterrupt (MultimodalConversation.tsx:168-171) -> interrupt.
HandleInterrupt ==
    /\ mounted
    /\ uiIsRecording
    /\ interrupt
    /\ UNCHANGED <<mounted, enableVideo, startPc, tracks, audioStream, videoStream,
                   isRecording, pendingStop, audioChunks, videoChunks, uploading,
                   lastUpload, uiIsRecording, uiIsPaused, notMedia>>

\* The methods called on the conversation in whatever state it is in, by a
\* caller that does not consult the component's flags.  method: "pause",
\* "resume" or "interrupt".
CallMethod(method) ==
    /\ mounted
    /\ CASE method = "pause" -> pauseRecording
         [] method = "resume" -> resumeRecording
         [] method = "interrupt" -> interrupt
    /\ UNCHANGED <<mounted, enableVideo, startPc, tracks, audioStream, videoStream,
                   isRecording, pendingStop, audioChunks, videoChunks, uploading,
                   lastUpload, uiIsRecording, uiIsPaused, notMedia>>

\* handleSwitchCamera (MultimodalConversation.tsx:194-203) and the cleanup of
\* the effect its setCameraFacing re-runs (lines 92-96).  The button is
\* rendered in the video panel while the component's isRecording is true
\* (lines 252, 267-275).  handleStopRecording stops the recording and resets
\* both flags; destroy() then calls stopRecording once more, which finds
\* nothing left to stop (or throws where the first call threw).  The effect
\* body builds the next conversation: Mount.
HandleSwitchCamera ==
    /\ mounted
    /\ enableVideo
    /\ uiIsRecording
    /\ stopRecording
    /\ IF stopRecordingThrows THEN UNCHANGED <<uiIsRecording, uiIsPaused>>
       ELSE uiIsRecording' = FALSE /\ uiIsPaused' = FALSE
    /\ mounted' = FALSE
    /\ UNCHANGED <<enableVideo, startPc, audioChunks, videoChunks,
                   uploading, lastUpload, invalidState, notMedia>>

\* The stopped audio recorder's events: the last dataavailable (last = 1
\* when it carries data) and onstop -> processAudioRecording
\* (multimodal-conversation.ts:126-134, 323-341), which empties audioChunks
\* into one blob and hands it to sendAudioToGemini.
AudioRecorderStopped(last) ==
    /\ "audio" \in pendingStop
    /\ pendingStop' = pendingStop \ {"audio"}
    /\ audioChunks' = 0
    /\ uploading' = uploading + audioChunks + last
    /\ UNCHANGED <<mounted, enableVideo, startPc, tracks, audioStream, videoStream,
                   audioRecorder, videoRecorder, isRecording, videoChunks,
                   lastUpload, uiIsRecording, uiIsPaused, invalidState, notMedia>>

\* The stopped video recorder's events: the last dataavailable is pushed to
\* videoChunks; the recorder has no onstop handler
\* (multimodal-conversation.ts:138-152) and nothing reads videoChunks.
VideoRecorderStopped(last) ==
    /\ "video" \in pendingStop
    /\ pendingStop' = pendingStop \ {"video"}
    /\ videoChunks' = videoChunks + last
    /\ UNCHANGED <<mounted, enableVideo, startPc, tracks, audioStream, videoStream,
                   audioRecorder, videoRecorder, isRecording, audioChunks, uploading,
                   lastUpload, uiIsRecording, uiIsPaused, invalidState, notMedia>>

\* sendAudioToGemini (multimodal-conversation.ts:343-394): generateContent
\* with the blob; a failure is caught and reported, the blob is gone.
SendAudioToGemini(ok) ==
    /\ uploading > 0
    /\ uploading' = 0
    /\ lastUpload' = (IF ok THEN "sent" ELSE "failed")
    /\ UNCHANGED <<mounted, enableVideo, startPc, classVars, audioChunks,
                   videoChunks, uiIsRecording, uiIsPaused, invalidState, notMedia>>

InitMedia ==
    /\ mounted = FALSE
    /\ enableVideo = FALSE
    /\ startPc = "idle"
    /\ tracks = <<>>
    /\ audioStream = {}
    /\ videoStream = {}
    /\ audioRecorder = "null"
    /\ videoRecorder = "null"
    /\ isRecording = FALSE
    /\ pendingStop = {}
    /\ audioChunks = 0
    /\ videoChunks = 0
    /\ uploading = 0
    /\ lastUpload = "none"
    /\ uiIsRecording = FALSE
    /\ uiIsPaused = FALSE
    /\ invalidState = FALSE

\* ------------------------------------------------- the Gemini API key
\* The keys a user may type into the key input.
Keys == {"key-1", "key-2"}

\* A key of which only the first character has been typed.
PartialKeys == {"k"}

\* What the key handlers leave alone.
notKey == <<now, clicks, db, reinfVars, importPc, importQueue, importDoc, exportPc,
            download, savePc, saveQueue, mediaVars, wizardVars, profileVars,
            analyticsVars, chatVars, defaultVars>>

\* Mutant of KeyInputStorage: the typed key is remembered in localStorage.
KeyInputStorageRemembers(storage, value) == SetItem(storage, "gemini-api-key", value)

\* What the onChange of the key inputs (new.tsx:447, 533) does to
\* localStorage: it calls setGeminiApiKey and nothing else.
KeyInputStorage(storage, value) == storage

\* initializeGemini (gemini.ts:7-9): the module's client is rebuilt around
\* the key.
initializeGemini(apiKey) == Some(apiKey)

\* The page's state after useState('') (new.tsx:25).
InitialGeminiApiKey == ""

\* What the page renders for its modals (new.tsx:499-519): a conversation
\* built around the key when a modal is asked for and geminiApiKey is truthy,
\* the key prompt when it is not.  The effect of the rendered component
\* constructs the conversation with that key (MultimodalConversation.tsx:53-56).
ConversationKey(voice, video, key) ==
    IF (voice \/ video) /\ key # "" THEN Some(key) ELSE None

KeyPromptShown == (showVoiceModal \/ showVideoModal) /\ geminiApiKey = ""

\* onChange of the key inputs: setGeminiApiKey(e.target.value), and the
\* render that follows.  Neither input can be reached under a conversation.
SetGeminiApiKey(value) ==
    /\ conversationKey = None
    /\ geminiApiKey' = value
    /\ keyTouched' = TRUE
    /\ keysTyped' = keysTyped \cup ({value} \ {""})
    /\ localStorage' = KeyInputStorage(localStorage, value)
    /\ conversationKey' = ConversationKey(showVoiceModal, showVideoModal, value)
    /\ UNCHANGED <<showVoiceModal, showVideoModal, continuePressed, genAI, formData,
                   alertShown, notKey>>

\* The Voice Conversation and Voice + Video buttons (new.tsx:177-215):
\* setShowVoiceModal(true) / setShowVideoModal(true).  A modal covers them.
HandleShowModal(video) ==
    /\ ~showVoiceModal
    /\ ~showVideoModal
    /\ showVoiceModal' = ~video
    /\ showVideoModal' = video
    /\ conversationKey' = ConversationKey(~video, video, geminiApiKey)
    /\ UNCHANGED <<continuePressed, keyVars, formData, alertShown, notKey>>

\* Continue in the key prompt (new.tsx:538-548): enabled while
\* geminiApiKey.trim() is not empty; its onClick changes no state.
HandleContinue ==
    /\ KeyPromptShown
    /\ geminiApiKey # ""
    /\ continuePressed' = TRUE
    /\ UNCHANGED <<showVoiceModal, showVideoModal, conversationKey, keyVars, formData,
                   alertShown, notKey>>

\* Cancel in the key prompt (new.tsx:549-557).
HandleCancel ==
    /\ KeyPromptShown
    /\ showVoiceModal' = FALSE
    /\ showVideoModal' = FALSE
    /\ conversationKey' = None
    /\ UNCHANGED <<continuePressed, keyVars, formData, alertShown, notKey>>

\* onClose of the rendered conversation (new.tsx:505, 514).
HandleCloseConversation ==
    /\ conversationKey # None
    /\ showVoiceModal' = FALSE
    /\ showVideoModal' = FALSE
    /\ conversationKey' = None
    /\ UNCHANGED <<continuePressed, keyVars, formData, alertShown, notKey>>

\* handleAnalyzeAI (new.tsx:55-89), up to initializeGemini; without a key it
\* alerts and returns.
HandleAnalyzeAI ==
    /\ IF geminiApiKey = ""
       THEN /\ alertShown' = "Please enter your Gemini API key in Settings first"
            /\ UNCHANGED genAI
       ELSE /\ genAI' = initializeGemini(geminiApiKey)
            /\ UNCHANGED alertShown
    /\ UNCHANGED <<geminiApiKey, localStorage, keyTouched, keysTyped, formData,
                   promptVars, notKey>>

\* handleCompleteOnboarding / handleSkipOnboarding of the dashboard:
\* localStorage.setItem(ONBOARDING_KEY, 'true').
HandleCompleteOnboarding ==
    /\ localStorage' = SetItem(localStorage, ONBOARDING_KEY, "true")
    /\ UNCHANGED <<geminiApiKey, genAI, keyTouched, keysTyped, formData, alertShown,
                   promptVars, notKey>>

\* The page is reloaded: React state and module variables start over, the
\* database and localStorage stay.
Reload ==
    /\ geminiApiKey' = InitialGeminiApiKey
    /\ genAI' = None
    /\ keyTouched' = FALSE
    /\ formData' = InitialFormData
    /\ showVoiceModal' = FALSE
    /\ showVideoModal' = FALSE
    /\ continuePressed' = FALSE
    /\ conversationKey' = None
    /\ UNCHANGED <<localStorage, keysTyped, alertShown, notKey>>

InitKey ==
    /\ geminiApiKey = InitialGeminiApiKey
    /\ genAI = None
    /\ localStorage = <<>>
    /\ keyTouched = FALSE
    /\ keysTyped = {}
    /\ showVoiceModal = FALSE
    /\ showVideoModal = FALSE
    /\ continuePressed = FALSE
    /\ conversationKey = None

\* ------------------------------------------------- components/PDFImport
\* What the wizard leaves alone.
notWizard == <<now, clicks, db, reinfVars, backupVars, behaviorVars, mediaVars,
               keyVars, profileVars, analyticsVars, chatVars, promptVars, defaultVars>>

\* What extractBehaviorsFromPDF (pdf-import.ts:12-150) may return for the
\* file-th file of a run: a failure (it catches every error and returns
\* success false with no behaviors), or a success with the behaviors found.
\* A behavior is told apart by its run, its file and its text (antecedent,
\* behavior and consequence, '' when the report gave none: pdf-import.ts:125-127).
ExtractionResults(run, file) ==
    {[success |-> FALSE, behaviors |-> <<>>],
     [success |-> TRUE, behaviors |-> <<>>]}
    \cup {[success |-> TRUE,
           behaviors |-> <<[run |-> run, file |-> file,
                            severity |-> mapSeverity(Num(4)), text |-> text]>>] :
             text \in {"", "a"}}

\* validateExtractedBehavior (pdf-import.ts:221-246), for a behavior whose
\* date and time are present: valid when the text is not empty.
validateExtractedBehavior(behavior) == behavior.text # ""

\* The forEach of handleProcessFiles (PDFImport:101-109): every behavior with
\* its validation; valid ones are selected.
WithStatus(behaviors) ==
    [i \in 1..Len(behaviors) |->
        [behavior |-> behaviors[i],
         valid |-> validateExtractedBehavior(behaviors[i]),
         selected |-> validateExtractedBehavior(behaviors[i])]]

\* Mutant of FileFailed: a failed file is skipped and the loop goes on.
FileFailedSkipped(result) == FALSE

\* The test `!result.success` of handleProcessFiles (PDFImport:94-96), which
\* throws out of the loop.
FileFailed(result) == ~result.success

\* handleFileSelect / handleDrop (PDFImport:49-76): pdfs of the chosen files
\* are PDFs.
HandleFileSelect(pdfs) ==
    /\ currentStep = "upload"
    /\ IF pdfs = 0
       THEN /\ error' = Some("Please select PDF files")
            /\ UNCHANGED files
       ELSE /\ files' = pdfs
            /\ error' = None
    /\ wizardEvent' = "select"
    /\ UNCHANGED <<processing, extractedBehaviors, currentStep, processFiles,
                   processIndex, allBehaviors, processRun, failedRuns,
                   importedBehaviors, notWizard>>

\* The remove button of a listed file (PDFImport:245).
HandleRemoveFile ==
    /\ currentStep = "upload"
    /\ files > 0
    /\ files' = files - 1
    /\ wizardEvent' = "select"
    /\ UNCHANGED <<processing, extractedBehaviors, currentStep, error, processFiles,
                   processIndex, allBehaviors, processRun, failedRuns,
                   importedBehaviors, notWizard>>

\* handleProcessFiles (PDFImport:82-88), up to the first await.  The button
\* is on the upload step and disabled without files or while processing.
HandleProcessFiles ==
    /\ currentStep = "upload"
    /\ files > 0
    /\ ~processing
    /\ processRun < MaxRuns
    /\ processing' = TRUE
    /\ error' = None
    /\ allBehaviors' = <<>>
    /\ processFiles' = files
    /\ processIndex' = 0
    /\ processRun' = processRun + 1
    /\ wizardEvent' = "processing"
    /\ UNCHANGED <<files, extractedBehaviors, currentStep, failedRuns,
                   importedBehaviors, notWizard>>

\* One iteration of the loop (PDFImport:91-110): a failed file throws, the
\* catch block sets the error and finally clears processing; otherwise the
\* file's behaviors are validated and appended to allBehaviors.
ProcessFile(result) ==
    /\ processing
    /\ processIndex < processFiles
    /\ failedRuns' = IF result.success THEN failedRuns ELSE failedRuns \cup {processRun}
    /\ IF FileFailed(result)
       THEN /\ error' = Some("Failed to process PDF")
            /\ processing' = FALSE
            /\ wizardEvent' = "processFailed"
            /\ UNCHANGED <<processIndex, allBehaviors>>
       ELSE /\ allBehaviors' = allBehaviors \o WithStatus(result.behaviors)
            /\ processIndex' = processIndex + 1
            /\ UNCHANGED <<error, processing, wizardEvent>>
    /\ UNCHANGED <<files, extractedBehaviors, currentStep, processFiles, processRun,
                   importedBehaviors, notWizard>>

\* The loop is over (PDFImport:112-121): the behaviors of all files are
\* offered on the review step.
ProcessFinish ==
    /\ processing
    /\ processIndex = processFiles
    /\ extractedBehaviors' = allBehaviors
    /\ currentStep' = "review"
    /\ processing' = FALSE
    /\ wizardEvent' = "processed"
    /\ UNCHANGED <<files, error, processFiles, processIndex, allBehaviors, processRun,
                   failedRuns, importedBehaviors, notWizard>>

\* handleToggleSelect (PDFImport:124-130); the checkbox of an invalid item is
\* disabled (PDFImport:315).
HandleToggleSelect(index) ==
    /\ currentStep = "review"
    /\ index \in 1..Len(extractedBehaviors)
    /\ extractedBehaviors[index].valid
    /\ extractedBehaviors' = [extractedBehaviors EXCEPT ![index].selected = ~@]
    /\ wizardEvent' = "review"
    /\ UNCHANGED <<files, processing, currentStep, error, processFiles, processIndex,
                   allBehaviors, processRun, failedRuns, importedBehaviors, notWizard>>

\* handleRemove (PDFImport:132-134).
HandleRemove(index) ==
    /\ currentStep = "review"
    /\ index \in 1..Len(extractedBehaviors)
    /\ extractedBehaviors' = [i \in 1..(Len(extractedBehaviors) - 1) |->
                                 IF i < index THEN extractedBehaviors[i]
                                 ELSE extractedBehaviors[i + 1]]
    /\ wizardEvent' = "review"
    /\ UNCHANGED <<files, processing, currentStep, error, processFiles, processIndex,
                   allBehaviors, processRun, failedRuns, importedBehaviors, notWizard>>

\* The Back button of the review step (PDFImport:452).
HandleBack ==
    /\ currentStep = "review"
    /\ currentStep' = "upload"
    /\ wizardEvent' = "review"
    /\ UNCHANGED <<files, processing, extractedBehaviors, error, processFiles,
                   processIndex, allBehaviors, processRun, failedRuns,
                   importedBehaviors, notWizard>>

\* Mutant of SelectedBehaviors: every valid item is passed on.
SelectedBehaviorsAllValid(items) ==
    LET kept == SelectSeq(items, LAMBDA item : item.valid)
    IN [i \in 1..Len(kept) |-> kept[i].behavior]

\* The filter of handleImport (PDFImport:137-139).
SelectedBehaviors(items) ==
    LET kept == SelectSeq(items, LAMBDA item : item.selected /\ item.valid)
    IN [i \in 1..Len(kept) |-> kept[i].behavior]

\* handleImport (PDFImport:136-152); its button is disabled while nothing
\* is selected.  onBehaviorsExtracted is handleBehaviorsExtracted of the
\* analytics page (analytics.tsx:780), which is entered and not awaited.
HandleImport ==
    /\ currentStep = "review"
    /\ \E i \in 1..Len(extractedBehaviors) : extractedBehaviors[i].selected
    /\ LET selectedBehaviors == SelectedBehaviors(extractedBehaviors)
       IN IF selectedBehaviors = <<>>
          THEN /\ error' = Some("No valid behaviors selected")
               /\ UNCHANGED <<currentStep, importedBehaviors, savePc, saveQueue>>
          ELSE /\ importedBehaviors' = selectedBehaviors
               /\ savePc' = "running"
               /\ saveQueue' = selectedBehaviors
               /\ currentStep' = "complete"
               /\ UNCHANGED error
    /\ wizardEvent' = "import"
    /\ UNCHANGED <<files, processing, extractedBehaviors, processFiles, processIndex,
                   allBehaviors, processRun, failedRuns, now, clicks, db, reinfVars,
                   backupVars, formData, mediaVars, keyVars, profileVars, analyticsVars, chatVars, promptVars, defaultVars>>

InitWizard ==
    /\ files = 0
    /\ processing = FALSE
    /\ extractedBehaviors = <<>>
    /\ currentStep = "upload"
    /\ error = None
    /\ processFiles = 0
    /\ processIndex = 0
    /\ allBehaviors = <<>>
    /\ processRun = 0
    /\ failedRuns = {}
    /\ wizardEvent = "none"
    /\ importedBehaviors = <<>>

\* --------------------------- ContextualChat (lib/voice-conversation.ts)
\* What the chat assistant and its component leave alone; its messages also
\* leave the behavior data alone.
outsideChat == <<now, clicks, db, reinfVars, backupVars, behaviorVars, mediaVars,
                 keyVars, wizardVars, profileVars, analyticsVars, promptVars, defaultVars>>

notChat == <<outsideChat, configBehaviors, analytics>>

\* A ChatMessage: its role, its content and the exchange (sendMessage call)
\* it belongs to; the component's welcome messages belong to none.
ChatMessage(role, content, exchange) ==
    [role |-> role, content |-> content, exchange |-> exchange]

\* handleSendMessage (ContextualChat.tsx:86-106) up to the await in
\* sendMessage (voice-conversation.ts:510-534): the user's message is pushed to
\* the history and, through onMessage, to the component's messages.  The
\* handler returns at once while isLoading or on an empty input.
InputMessages == {"", "why", "what"}

HandleSendMessage(inputMessage) ==
    /\ inputMessage # ""
    /\ ~isLoading
    /\ exchanges < MaxExchanges
    /\ LET userChatMessage == ChatMessage("user", inputMessage, exchanges + 1) IN
       /\ chatHistory' = Append(chatHistory, userChatMessage)
       /\ chatMessages' = Append(chatMessages, userChatMessage)
    /\ exchanges' = exchanges + 1
    /\ sendPc' = exchanges + 1
    /\ isLoading' = TRUE
    /\ chatError' = FALSE
    /\ UNCHANGED <<clearedUpTo, notChat>>

\* chat.sendMessage settles (voice-conversation.ts:534-551) and
\* handleSendMessage runs to its end (ContextualChat.tsx:94-105).  ok: the
\* reply arrived and is pushed to this.chatHistory as it is now; otherwise
\* the rejection is reported through onError and the handler's catch.
SendMessageSettled(ok) ==
    /\ sendPc # 0
    /\ LET assistantMessage == ChatMessage("assistant", "reply", sendPc) IN
       IF ok
       THEN /\ chatHistory' = Append(chatHistory, assistantMessage)
            /\ chatMessages' = Append(chatMessages, assistantMessage)
            /\ UNCHANGED chatError
       ELSE /\ chatError' = TRUE
            /\ UNCHANGED <<chatHistory, chatMessages>>
    /\ sendPc' = 0
    /\ isLoading' = FALSE
    /\ UNCHANGED <<exchanges, clearedUpTo, notChat>>

\* clearHistory (voice-conversation.ts:564-566).
clearHistory == <<>>

\* handleClearChat (ContextualChat.tsx:108-130); the trash button is enabled
\* at all times (lines 176-182).  confirmed: the user's answer to confirm().
HandleClearChat(confirmed) ==
    /\ IF confirmed
       THEN /\ chatHistory' = clearHistory
            /\ chatMessages' = <<ChatMessage("assistant", "welcome again", 0)>>
            /\ chatError' = FALSE
            /\ clearedUpTo' = exchanges
       ELSE UNCHANGED <<chatHistory, chatMessages, chatError, clearedUpTo>>
    /\ UNCHANGED <<isLoading, sendPc, exchanges, notChat>>

\* getHistory (voice-conversation.ts:557-559): a copy of the history.
getHistory == chatHistory

\* calculateBehaviorAnalytics (analytics.ts:5-83), of each behavior's
\* function alone.
BehaviorFunction ==
    [ESCAPE |-> "escape", ATTENTION |-> "attention",
     TANGIBLE |-> "tangible", SENSORY |-> "sensory"]

BehaviorFunctions == {BehaviorFunction[name] : name \in DOMAIN BehaviorFunction}

\* The lists of behaviors, by function, of at most MaxBehaviors entries.
BehaviorLists == UNION {[1..n -> BehaviorFunctions] : n \in 0..MaxBehaviors}

\* functionDistribution (lines 43-47): a key for every function that occurs.
functionDistribution(behaviors) ==
    [func \in {behaviors[i] : i \in DOMAIN behaviors} |->
        Cardinality({i \in DOMAIN behaviors : behaviors[i] = func})]

\* Object.entries of the distribution: its keys in insertion order, the
\* order of their first occurrence in the list.
RECURSIVE Entries(_, _)
Entries(behaviors, seen) ==
    IF behaviors = <<>> THEN <<>>
    ELSE IF Head(behaviors) \in seen THEN Entries(Tail(behaviors), seen)
    ELSE <<Head(behaviors)>> \o Entries(Tail(behaviors), seen \cup {Head(behaviors)})

\* count > functionDistribution[max] (line 52): false when max is no key
\* of the distribution, the comparison being with undefined.
GreaterThanCountOf(count, max, dist) == max \in DOMAIN dist /\ count > dist[max]

\* The reduce of lines 50-54, started from BehaviorFunction.ESCAPE.
RECURSIVE MostCommon(_, _, _)
MostCommon(entries, max, dist) ==
    IF entries = <<>> THEN max
    ELSE MostCommon(Tail(entries),
                    IF GreaterThanCountOf(dist[Head(entries)], max, dist)
                    THEN Head(entries) ELSE max,
                    dist)

calculateBehaviorAnalytics(behaviors) ==
    IF Len(behaviors) = 0
    THEN [totalEntries |-> 0, mostCommonFunction |-> BehaviorFunction.ESCAPE]
    ELSE [totalEntries |-> Len(behaviors),
          mostCommonFunction |-> MostCommon(Entries(behaviors, {}),
                                            BehaviorFunction.ESCAPE,
                                            functionDistribution(behaviors))]

\* The constructor of ContextualChat (voice-conversation.ts:394-402) and
\* updateBehaviors (lines 571-578).
updateBehaviors(behaviors) ==
    /\ configBehaviors' = behaviors
    /\ analytics' = IF Len(behaviors) > 0
                    THEN Some(calculateBehaviorAnalytics(behaviors))
                    ELSE None
    /\ UNCHANGED <<chatHistory, chatMessages, isLoading, chatError, sendPc,
                   exchanges, clearedUpTo, outsideChat>>

InitChat ==
    /\ configBehaviors = <<>>
    /\ analytics = None
    /\ chatHistory = <<>>
    /\ chatMessages = <<ChatMessage("assistant", "welcome", 0)>>
    /\ isLoading = FALSE
    /\ chatError = FALSE
    /\ sendPc = 0
    /\ exchanges = 0
    /\ clearedUpTo = 0

InitAnalytics ==
    /\ pageBehaviors = [entry \in Dates \X LoggedSeverities |-> 0]
    /\ milestones = {}

InitReinforcers ==
    /\ reinforcers = <<>>
    /\ inflight = <<>>
    /\ useDone = <<>>

\* Database.init on a fresh browser profile: the three stores, all empty.
InitDatabase == db = [name \in objectStoreNames |-> <<>>]

Init ==
    /\ now = 0
    /\ clicks = 0
    /\ InitDatabase
    /\ InitReinforcers
    /\ InitBackup
    /\ InitBehaviors
    /\ InitMedia
    /\ InitKey
    /\ InitWizard
    /\ InitProfiles
    /\ InitAnalytics
    /\ InitChat

\* The reinforcers page on its own.
NextUse ==
    \/ \E avoid \in AvoidDays : HandleSubmit(avoid)
    \/ \E id \in DOMAIN reinforcers : HandleUse(id)
    \/ \E id \in DOMAIN reinforcers : HandleDelete(id)
    \/ \E i \in 1..MaxInFlight : LoadReinforcersRead(i)
    \/ LoadReinforcersSet
    \/ Tick

SpecUse == Init /\ [][NextUse]_vars

\* Backups a user can upload on the reinforcers page's run: documents with one
\* reinforcer record, with or without a profile; the last export if there is one.
ProfileRecords == {<<>>, <<[id |-> TimeId(0), item |-> [isActive |-> TRUE]]>>}

ReinforcerRecords ==
    {<<>>} \cup {<<[id |-> TimeId(0), item |-> [NewReinforcer(0) EXCEPT !.usageCount = n]]>> :
                    n \in 0..1}

Downloaded == IF download = None THEN {} ELSE {download[1]}

ReinforcerBackups ==
    {BackupDocument(Some(BackupData(p, <<>>, r, <<>>))) :
        p \in ProfileRecords, r \in ReinforcerRecords} \cup Downloaded

\* The reinforcers page together with backup export and import.
NextReinforcers ==
    \/ \E avoid \in AvoidDays : HandleSubmit(avoid)
    \/ \E id \in DOMAIN reinforcers : HandleUse(id)
    \/ \E id \in DOMAIN reinforcers : HandleDelete(id)
    \/ \E i \in 1..MaxInFlight : LoadReinforcersRead(i)
    \/ LoadReinforcersSet
    \/ HandleExportData
    \/ \E doc \in ReinforcerBackups : HandleImportData(doc)
    \/ ImportStep
    \/ ImportFinish
    \/ Tick

SpecReinforcers == Init /\ [][NextReinforcers]_vars

\* What a Gemini reply and a parsed PDF report may hold for one behaviour.
Replies == [severity : ReplySeverities, text : {"b"}]

\* Lists the PDF wizard may pass on: one or two extracted behaviours.
ExtractedLists ==
    {<<extractBehaviorsFromPDF(b)>> : b \in Replies}
        \cup {<<extractBehaviorsFromPDF(b), extractBehaviorsFromPDF(b)>> : b \in Replies}

\* Backups a user can upload in a run of the behaviour pages.
BehaviorRecords ==
    {<<>>} \cup {<<[id |-> TimeId(0), item |-> [severity |-> v, text |-> "b"]]>> :
                    v \in {Num(3), Num(9)}}

\* A behaviour record followed by one that lost its id.
NoIdRecords ==
    <<[id |-> TimeId(0), item |-> [severity |-> Num(3), text |-> "b"]],
      [id |-> None, item |-> [severity |-> Num(3), text |-> "b"]]>>

\* Two behaviour records with one id, as a hand-edited backup may hold.
SameIdRecords ==
    <<[id |-> TimeId(0), item |-> [severity |-> Num(3), text |-> "b"]],
      [id |-> TimeId(0), item |-> [severity |-> Num(9), text |-> "b"]]>>

BehaviorBackups ==
    {BackupDocument(None), BackupDocument(Some(BackupData(<<>>, NoIdRecords, <<>>, <<>>))),
     BackupDocument(Some(BackupData(<<>>, SameIdRecords, <<>>, <<>>)))}
        \cup {BackupDocument(Some(BackupData(p, b, <<>>, <<>>))) :
                 p \in ProfileRecords, b \in BehaviorRecords}
        \cup Downloaded

\* The behaviour pages together with backup export and import.
NextBehaviors ==
    \/ \E option \in 1..5 : HandleChangeSeverity(option)
    \/ \E value \in Texts : HandleChangeText(value)
    \/ \E reply \in Replies : HandleBehaviorExtracted(extractBehaviorData(reply))
    \/ HandleSubmitBehavior
    \/ \E id \in DOMAIN behaviorStore : HandleDeleteBehavior(id)
    \/ \E list \in ExtractedLists : HandleBehaviorsExtracted(list)
    \/ \E random \in 1..MaxRandom : SaveExtractedStep(random)
    \/ SaveExtractedFinish
    \/ HandleExportData
    \/ \E doc \in BehaviorBackups : HandleImportData(doc)
    \/ ImportStep
    \/ ImportFinish
    \/ Tick

SpecBehaviors == Init /\ [][NextBehaviors]_vars

\* The writers of the behaviors store alone: the new-behaviour form, the save
\* loop after PDF import and backup import, with the delete button of the
\* behaviour list.
StoringLists ==
    LET b == extractBehaviorsFromPDF([severity |-> Num(4), text |-> "b"])
    IN {<<b>>, <<b, b>>}

NextStoring ==
    \/ \E value \in Texts : HandleChangeText(value)
    \/ HandleSubmitBehavior
    \/ \E list \in StoringLists : HandleBehaviorsExtracted(list)
    \/ \E random \in 1..MaxRandom : SaveExtractedStep(random)
    \/ SaveExtractedFinish
    \/ \E id \in DOMAIN behaviorStore : HandleDeleteBehavior(id)
    \/ \E doc \in BehaviorBackups : HandleImportData(doc)
    \/ ImportStep
    \/ ImportFinish
    \/ Tick

SpecStoring == Init /\ [][NextStoring]_vars

NextMedia ==
    \/ \E video \in BOOLEAN : Mount(video)
    \/ HandleStartRecording
    \/ GetUserMediaRejected
    \/ \E audioOk \in BOOLEAN, videoOk \in BOOLEAN : GetUserMediaResolved(audioOk, videoOk)
    \/ SendInitialPromptDone
    \/ AudioDataAvailable
    \/ VideoDataAvailable
    \/ HandleStopRecording
    \/ HandlePauseResume
    \/ HandleInterrupt
    \/ HandleSwitchCamera
    \/ \E closing \in BOOLEAN : Destroy(closing)
    \/ \E last \in {0, 1} : AudioRecorderStopped(last)
    \/ \E last \in {0, 1} : VideoRecorderStopped(last)
    \/ \E ok \in BOOLEAN : SendAudioToGemini(ok)

SpecMedia == Init /\ [][NextMedia]_vars

\* The controls of the conversation dialog alone: Start, Pause/Resume,
\* Interrupt, Stop and the camera switch, with the callbacks they leave
\* behind; the dialog is closed but its effect is never re-run for a changed
\* language or key.
NextControls ==
    \/ \E video \in BOOLEAN : Mount(video)
    \/ HandleStartRecording
    \/ GetUserMediaRejected
    \/ \E audioOk \in BOOLEAN, videoOk \in BOOLEAN : GetUserMediaResolved(audioOk, videoOk)
    \/ SendInitialPromptDone
    \/ HandleStopRecording
    \/ HandlePauseResume
    \/ HandleInterrupt
    \/ HandleSwitchCamera
    \/ \E last \in {0, 1} : AudioRecorderStopped(last)
    \/ \E last \in {0, 1} : VideoRecorderStopped(last)
    \/ \E ok \in BOOLEAN : SendAudioToGemini(ok)

SpecControls == Init /\ [][NextControls]_vars

\* The conversation driven through its public methods in any order: start
\* and stop through the component's buttons, pauseRecording, resumeRecording
\* and interrupt in any state.
NextCalls ==
    \/ \E video \in BOOLEAN : Mount(video)
    \/ HandleStartRecording
    \/ GetUserMediaRejected
    \/ \E audioOk \in BOOLEAN, videoOk \in BOOLEAN : GetUserMediaResolved(audioOk, videoOk)
    \/ SendInitialPromptDone
    \/ HandleStopRecording
    \/ \E method \in {"pause", "resume", "interrupt"} : CallMethod(method)
    \/ \E closing \in BOOLEAN : Destroy(closing)
    \/ \E last \in {0, 1} : AudioRecorderStopped(last)
    \/ \E last \in {0, 1} : VideoRecorderStopped(last)
    \/ \E ok \in BOOLEAN : SendAudioToGemini(ok)

SpecCalls == Init /\ [][NextCalls]_vars

\* The chat assistant's dialog.
NextChat ==
    \/ \E inputMessage \in InputMessages : HandleSendMessage(inputMessage)
    \/ \E ok \in BOOLEAN : SendMessageSettled(ok)
    \/ \E confirmed \in BOOLEAN : HandleClearChat(confirmed)

SpecChat == Init /\ [][NextChat]_vars

\* The analytics the chat assistant computes of the behaviors it is given.
NextAnalytics ==
    \E behaviors \in BehaviorLists : updateBehaviors(behaviors)

SpecAnalytics == Init /\ [][NextAnalytics]_vars

\* The profile switcher loading its active profile, on several pages or
\* tabs at a time, next to the profile manager.
NextDefaultProfile ==
    \/ LoadActiveProfileStart
    \/ \E load \in 1..MaxLoads, random \in 1..MaxRandom :
           InitializeDefaultProfileStep(load, random)
    \/ OpenProfileManager
    \/ LoadProfiles
    \/ \E random \in 1..MaxRandom : HandleAddProfile(random)
    \/ Tick

SpecDefaultProfile == Init /\ [][NextDefaultProfile]_vars

NextKey ==
    \/ \E value \in Keys \cup {""} : SetGeminiApiKey(value)
    \/ HandleAnalyzeAI
    \/ HandleCompleteOnboarding
    \/ \E profileId \in ProfileIds : switchProfile(profileId)
    \/ \E value \in Texts : HandleChangeText(value)
    \/ HandleSubmitBehavior
    \/ Reload

SpecKey == Init /\ [][NextKey]_vars

\* The modals of the new-behavior page and its key inputs.
NextKeyPrompt ==
    \/ \E value \in Keys \cup PartialKeys \cup {""} : SetGeminiApiKey(value)
    \/ \E video \in BOOLEAN : HandleShowModal(video)
    \/ HandleCancel
    \/ HandleCloseConversation
    \/ HandleAnalyzeAI
    \/ Reload

SpecKeyPrompt == Init /\ [][NextKeyPrompt]_vars

NextWizard ==
    \/ \E pdfs \in 0..MaxFiles : HandleFileSelect(pdfs)
    \/ HandleRemoveFile
    \/ HandleProcessFiles
    \/ \E result \in ExtractionResults(processRun, processIndex + 1) : ProcessFile(result)
    \/ ProcessFinish
    \/ \E index \in 1..MaxFiles : HandleToggleSelect(index)
    \/ \E index \in 1..MaxFiles : HandleRemove(index)
    \/ HandleBack
    \/ HandleImport
    \/ \E random \in 1..MaxRandom : SaveExtractedStep(random)
    \/ SaveExtractedFinish

SpecWizard == Init /\ [][NextWizard]_vars

\* Backup import on its own: importAllData and the handler around it.
NextImport ==
    \/ \E doc \in BehaviorBackups \cup ReinforcerBackups : HandleImportData(doc)
    \/ ImportStep
    \/ ImportFinish
    \/ Tick

SpecImport == Init /\ [][NextImport]_vars

\* The analytics page as entries come in.
NextMilestones ==
    \E date \in Dates, severity \in LoggedSeverities : LogBehavior(date, severity)

SpecMilestones == Init /\ [][NextMilestones]_vars

\* Profile management (ProfileSwitcher, ProfileManager and the functions of
\* lib/profiles.ts they call) together with backup import.  ProfileManager
\* renders a profile's buttons only after loadProfiles has resolved with that
\* profile; getAllProfiles rejects for want of the profiles store, the list
\* stays empty, and HandleSwitchProfile and HandleDeactivateProfile can never
\* be clicked: they are no steps of the program.
ProfileBackups ==
    {BackupDocument(Some(BackupData(p, b, <<>>, <<>>))) :
        p \in ProfileRecords, b \in BehaviorRecords}

NextProfiles ==
    \/ \E random \in 1..MaxRandom : LoadActiveProfile(random)
    \/ OpenProfileManager
    \/ LoadProfiles
    \/ \E random \in 1..MaxRandom : HandleAddProfile(random)
    \/ \E random \in 1..MaxRandom : createProfile(random)
    \/ \E profileId \in ProfileIds : deactivateProfile(profileId)
    \/ \E profileId \in ProfileIds : switchProfile(profileId)
    \/ \E doc \in ProfileBackups : HandleImportData(doc)
    \/ ImportStep
    \/ ImportFinish
    \/ HandleExportData
    \/ Tick

SpecProfiles == Init /\ [][NextProfiles]_vars

\* ------------------------------------------------------------ claims C1, C6
\* C1: every completed use action raises the stored usageCount by exactly 1 and
\* never makes it negative: a reinforcer created with usageCount 0 has counted
\* every completed use, and once no handler is in flight its stored usageCount
\* equals the number of completed use actions.
C1_UsageCountCountsEveryUse ==
    \A id \in DOMAIN reinforcerStore :
        /\ reinforcerStore[id].usageCount >= 0
        /\ reinforcerStore[id].usageCount >= useDone[id]
        /\ (inflight = <<>> => reinforcerStore[id].usageCount = useDone[id])

\* C6: no use is recorded for a reinforcer inside its cooldown: whenever
\* handleUse writes a reinforcer whose stored record has been used and has
\* avoidRepetitionDays = d > 0, at least d days separate the stored lastUsed
\* from the time of the new use.
C6_NoUseInsideCooldown ==
    [][\A id \in DOMAIN reinforcerStore :
          (/\ HandleUse(id)
           /\ reinforcerStore[id].lastUsed # None
           /\ reinforcerStore[id].avoidRepetitionDays > 0)
          => differenceInDays(now, reinforcerStore[id].lastUsed[1])
                 >= reinforcerStore[id].avoidRepetitionDays]_vars

\* ------------------------------------------------------------ claims C2..C5
\* C2: every BehaviorEntry held in the behaviors store has a severity that is
\* an integer in 1..5, whichever path wrote it.
C2_StoredSeverityInRange ==
    \A id \in DOMAIN behaviorStore : IsSeverityLevel(behaviorStore[id].severity)

\* The stores hold exactly the records of the backup document doc.
StoresEqualBackup(doc) ==
    /\ TransactionOk(STORES_PROFILES)
    /\ Database_getAll(db[STORES_PROFILES]) = doc.data[1].profiles
    /\ Database_getAll(db[STORES.BEHAVIORS]) = doc.data[1].behaviors
    /\ Database_getAll(db[STORES.REINFORCERS]) = doc.data[1].reinforcers
    /\ Database_getAll(db[STORES.CRISIS_PROTOCOLS]) = doc.data[1].crisisProtocols

C4_NeverUpdatedInPlace ==
    [][\A id \in DOMAIN db[STORES.BEHAVIORS] \cap DOMAIN db'[STORES.BEHAVIORS] :
          db'[STORES.BEHAVIORS][id] = db[STORES.BEHAVIORS][id]]_vars

\* C4 as amended: a stored BehaviorEntry changes only when importAllData
\* writes a backup record with the same id, and then it becomes that record;
\* form submission, the PDF save loop and the deletion of another entry never
\* change it.
C4_OnlyImportOverwrites ==
    [][\A id \in DOMAIN db[STORES.BEHAVIORS] \cap DOMAIN db'[STORES.BEHAVIORS] :
          db'[STORES.BEHAVIORS][id] # db[STORES.BEHAVIORS][id]
          => /\ importPc = "running"
             /\ importQueue # <<>>
             /\ Head(importQueue).store = STORES.BEHAVIORS
             /\ Head(importQueue).id = id
             /\ db'[STORES.BEHAVIORS][id] = Head(importQueue).item]_vars

\* A second entry was written while a first one was stored.
C4_Witness == Cardinality(DOMAIN behaviorStore) >= 2 /\ importPc = "idle"

\* C5: usageCount is a monotonic counter: no step lowers the stored usageCount
\* of a reinforcer that stays in the store.
C5_UsageCountMonotonic ==
    [][\A id \in DOMAIN db[STORES.REINFORCERS] \cap DOMAIN db'[STORES.REINFORCERS] :
          db'[STORES.REINFORCERS][id].usageCount
              >= db[STORES.REINFORCERS][id].usageCount]_vars

\* ------------------------------------------------------------ claims C8, C9
\* C8: the Gemini API key lives in memory only: no value kept in
\* localStorage and no text of a stored behaviour entry is a key that was
\* typed, and a page on which the key input has not changed since the page
\* was loaded holds no key, neither in its state nor in the Gemini client.
C8_KeyInMemoryOnly ==
    /\ \A item \in DOMAIN localStorage : localStorage[item] \notin keysTyped
    /\ \A id \in DOMAIN behaviorStore : behaviorStore[id].text \notin keysTyped
    /\ ~keyTouched => geminiApiKey = "" /\ genAI = None

\* A key was typed, data was persisted, and the page was reloaded since.
C8_Witness ==
    /\ keysTyped # {}
    /\ ~keyTouched
    /\ DOMAIN localStorage # {}
    /\ DOMAIN behaviorStore # {}

\* C9: a run of handleProcessFiles in which the extraction of a file failed
\* ends on the upload step with an error shown, and no behavior of any file
\* of such a run is ever in the list offered for review.
C9_ProcessingAbortsOnFirstFailure ==
    /\ wizardEvent = "processFailed"
           => currentStep = "upload" /\ error # None /\ ~processing
    /\ \A i \in 1..Len(extractedBehaviors) :
           extractedBehaviors[i].behavior.run \notin failedRuns

\* The second file of a run failed after the first had yielded a behavior.
C9_Witness ==
    /\ wizardEvent = "processFailed"
    /\ processIndex >= 1
    /\ allBehaviors # <<>>

\* ------------------------------------------------------------ claims C7, C10
\* C7: whenever the conversation is not recording (before a start, after a
\* start that failed part-way, after stopRecording, after destroy), no track
\* that getUserMedia returned is still live.
C7_NoLiveTrackUnlessRecording ==
    ~isRecording => \A track \in DOMAIN tracks : tracks[track] = "ended"

\* The recording has been stopped and every callback it left behind has run.
RecordingStopped ==
    /\ ~isRecording
    /\ ~Active(audioRecorder)
    /\ ~Active(videoRecorder)
    /\ startPc = "idle"
    /\ pendingStop = {}
    /\ uploading = 0

\* C10: once recording is stopped and the callbacks of the stop have run,
\* the chunks the recorders buffered have been flushed: both the audio and
\* the video buffer are empty.
C10_BuffersFlushedAfterStop ==
    RecordingStopped => audioChunks = 0 /\ videoChunks = 0

\* -------------------------------------------------------------- claim C11
\* C11: every failed database or Gemini operation is caught, logged and
\* reported to the user through an alert or an error banner; no failure is
\* only logged to the console.  Stated of the operation a component ran last:
\* when it was rejected, it was logged and reported.
C11_FailuresCaughtLoggedReported ==
    (lastOp.handler /\ lastOp.outcome = "rejected")
        => (lastOp.logged /\ lastOp.reported)

\* -------------------------------------------------------------- claim C12
\* A step of the save loop after PDF import, or of importAllData.
SaveLoopStep == savePc = "running" /\ <<savePc, saveQueue>>' # <<savePc, saveQueue>>

ImportLoopStep == importPc = "running" /\ <<importPc, importQueue>>' # <<importPc, importQueue>>

\* C12: database calls commit one by one with no cross-call atomicity: when
\* importAllData or the save loop after PDF import fails part-way, every
\* record written by its earlier calls stays stored and nothing is rolled
\* back.  Stated of every step of the two loops: no stored record goes away,
\* and the step at which the operation fails leaves the database as it is.
C12_NoRollback ==
    [][(SaveLoopStep \/ ImportLoopStep)
          => /\ \A name \in DOMAIN db : DOMAIN db[name] \subseteq DOMAIN db'[name]
             /\ (savePc' = "failed" /\ SaveLoopStep) => db' = db
             /\ (importPc' = "failed" /\ ImportLoopStep) => db' = db]_vars

\* The save loop failed after it had stored a record (its click was the only
\* one), and the import failed after it had stored a record.
C12_Witness ==
    /\ savePc = "failed"
    /\ clicks = 1
    /\ DOMAIN behaviorStore # {}

SelectedAndValid ==
    {i \in 1..Len(extractedBehaviors) :
        /\ extractedBehaviors[i].selected
        /\ validateExtractedBehavior(extractedBehaviors[i].behavior)}

\* C14: PDF import passes on for storage exactly the extracted behaviors that
\* are both selected and valid when 'Import Selected Behaviors' is clicked; an
\* item that is invalid or unselected is never stored.  Stated on the
\* complete step: the list handed to onBehaviorsExtracted holds the behaviors
\* of the selected valid items and no other, each once; and at all times the
\* list being saved and the behaviors store hold no invalid behavior.
C14_ImportsSelectedAndValid ==
    /\ currentStep = "complete" =>
           /\ \A i \in 1..Len(extractedBehaviors) :
                  (\E j \in 1..Len(importedBehaviors) :
                        importedBehaviors[j] = extractedBehaviors[i].behavior)
                      <=> i \in SelectedAndValid
           /\ Len(importedBehaviors) = Cardinality(SelectedAndValid)
    /\ \A j \in 1..Len(saveQueue) : validateExtractedBehavior(saveQueue[j])
    /\ \A id \in DOMAIN behaviorStore : validateExtractedBehavior(behaviorStore[id])

\* The import was clicked with a valid item unselected besides the one that
\* was passed on, and that one was stored.
C14_Witness ==
    /\ currentStep = "complete"
    /\ \E i \in 1..Len(extractedBehaviors) :
           extractedBehaviors[i].valid /\ ~extractedBehaviors[i].selected
    /\ importedBehaviors # <<>>
    /\ DOMAIN behaviorStore # {}

\* -------------------------------------------------------------- claim C15
\* The severity milestones of a weekly-average comparison: for each calendar
\* week with at least 3 entries, an improvement when the week's average
\* severity is more than 0.4 below that of the week before it in the log, a
\* regression when it is more than 0.4 above.
WeeklyComparison(log) ==
    {[week |-> m.date, type |-> m.type] :
        m \in SeverityMilestones(WeeklyAverages(log, WeekOf))}

\* C15: detectMilestones groups entries by calendar week and, for each week
\* with at least 3 entries, reports an improvement when that week's average
\* severity is more than 0.4 below the previous week's average and a
\* regression when it is more than 0.4 above.
C15_WeeklyAverageComparison ==
    {[week |-> WeekOf[m.date], type |-> m.type] :
        m \in {x \in milestones : x.metric = "severity"}}
        = WeeklyComparison(pageBehaviors)

\* -------------------------------------------------------- claims C16, C17
\* A stored profile with this id is active.
StoredActive(id) ==
    /\ TransactionOk(STORES_PROFILES)
    /\ id \in DOMAIN profileStore
    /\ profileStore[id].isActive

C18_EveryOpenedStoreExists ==
    /\ lastOp.outcome = "rejected" => TransactionOk(STORES_PROFILES)
    /\ exportPc = "failed" => ExportSucceeds
    /\ (importPc = "failed" /\ importDoc[1].data # None)
           => \A i \in 1..Len(ImportOrder(importDoc[1].data[1])) :
                  TransactionOk(ImportOrder(importDoc[1].data[1])[i].store)

\* -------------------------------------------------------------- claim C19
\* The writes of the backup being imported, in the order of importAllData.
Writes == ImportOrder(importDoc[1].data[1])

\* importAllData returns.
ImportCompletes == importPc = "running" /\ importPc' = "done"

\* A call of importAllData has written the record at the head of its queue.
ImportWrote == importPc = "running" /\ importPc' = "running" /\ importQueue' # importQueue

\* No record but the one written changes, appears or goes away.
OthersUnchanged ==
    LET w == Head(importQueue) IN
    \A name \in DOMAIN db :
        /\ DOMAIN db'[name] = DOMAIN db[name] \cup (IF name = w.store THEN {w.id} ELSE {})
        /\ \A id \in DOMAIN db[name] :
               (name # w.store \/ id # w.id) => db'[name][id] = db[name][id]

\* The record of the i-th write is stored with the backup's values.
StoredAsInBackup(i) ==
    /\ Writes[i].id \in DOMAIN db'[Writes[i].store]
    /\ db'[Writes[i].store][Writes[i].id] = Writes[i].item

\* No later record of the backup has the id of the i-th in its store.
LastOfItsId(i) ==
    \A j \in (i + 1)..Len(Writes) :
        Writes[j].store # Writes[i].store \/ Writes[j].id # Writes[i].id

\* C19 as stated: importAllData merges by id: when it completes, every record
\* in the backup is stored with exactly the backup's field values (an
\* existing record with the same id is overwritten) and every stored record
\* whose id is absent from the backup is unchanged.
C19_MergesById ==
    [][/\ ImportWrote => OthersUnchanged
       /\ ImportCompletes => \A i \in 1..Len(Writes) : StoredAsInBackup(i)]_vars

\* C19 amended: the same for every record of the backup that is not followed
\* in its array by another record with the same id.
C19_MergesByIdLastWins ==
    [][/\ ImportWrote => OthersUnchanged
       /\ ImportCompletes =>
              \A i \in 1..Len(Writes) : LastOfItsId(i) => StoredAsInBackup(i)]_vars

\* The import of a backup that holds one id twice has completed: the record
\* it stored first was overwritten with the values of the later one.
C19_Witness ==
    /\ importPc = "done"
    /\ importDoc = Some(BackupDocument(Some(BackupData(<<>>, SameIdRecords, <<>>, <<>>))))
    /\ behaviorStore[TimeId(0)] = SameIdRecords[2].item

\* -------------------------------------------------------------- claim C20
\* C20: the PDF import wizard reaches its 'complete' (import successful) step
\* only after every selected behavior has been stored; when storing fails,
\* the success step is never shown.  Stated of the complete step: while it is
\* shown, no behavior that was passed on is still to be stored and the save
\* loop has not failed.
C20_CompleteOnlyAfterStored ==
    currentStep = "complete" => (saveQueue = <<>> /\ savePc # "failed")

\* -------------------------------------------------------------- claim C21
\* The tracks the conversation object holds (this.audioStream and
\* this.videoStream; mediaRecorder.stream in VoiceConversation).
HeldTracks == audioStream \cup videoStream

\* C21: a conversation on which destroy() has been called is not recording
\* and holds no live media track, in every later state, also when destroy()
\* ran while startConversation was awaiting getUserMedia.
C21_DestroyedStaysStopped ==
    ~mounted => /\ ~isRecording
                /\ \A track \in HeldTracks : tracks[track] = "ended"

\* -------------------------------------------------------------- claim C22
\* The conversation the component holds is recording; its recorder is paused.
ConversationRecording == mounted /\ isRecording

RecorderPaused == mounted /\ audioRecorder = "paused"

\* C22: once a handler has run to its end, the component's flags mirror the
\* recorder: isRecording is true exactly when the conversation is recording
\* and isPaused is true exactly when its MediaRecorder is paused.
C22_FlagsMirrorRecorder ==
    startPc = "idle" => /\ uiIsRecording <=> ConversationRecording
                        /\ uiIsPaused <=> RecorderPaused

\* -------------------------------------------------------------- claim C23
\* C23: no sequence of start, pause, resume, interrupt and stop calls makes
\* the conversation call pause() or resume() on an inactive MediaRecorder.
C23_NoPauseOnInactiveRecorder == ~invalidState

\* -------------------------------------------------------------- claim C24
\* C24: after clearHistory(), getHistory() holds no message of an exchange
\* that began before the clear, also when a sendMessage call was awaiting
\* its reply at the time of the clear.
C24_ClearedForGood ==
    \A i \in DOMAIN getHistory : getHistory[i].exchange > clearedUpTo

\* -------------------------------------------------------------- claim C25
\* The entries of the list with the given function.
EntriesOf(func) ==
    Cardinality({i \in DOMAIN configBehaviors : configBehaviors[i] = func})

\* C25: for a non-empty list of behaviors, mostCommonFunction is a function
\* whose number of entries is maximal among all functions.
C25_MostCommonFunctionIsMaximal ==
    analytics # None =>
        \A func \in BehaviorFunctions :
            EntriesOf(analytics[1].mostCommonFunction) >= EntriesOf(func)

\* -------------------------------------------------------------- claim C26
\* C26: on the new-behavior page a conversation is created only after the
\* user has pressed Continue in the key prompt; typing in the key field
\* alone never mounts the conversation.
C26_ConversationOnlyAfterContinue ==
    conversationKey # None => continuePressed

====
